---- MODULE Spec2Model ----
(***************************************************************************)
(* Verification model of cds2types' JS emitter (src/src/jsemitter.ts) and  *)
(* of the class flattening in src/src/types/namespace.ts.                  *)
(*                                                                         *)
(* Strings are sequences of one-character strings, so that the string      *)
(* operations of the code (split, replace, join, slice, concatenation) are *)
(* computed character by character.                                        *)
(***************************************************************************)
EXTENDS Integers, Sequences, FiniteSets, TLC

VARIABLES
    \* ModuleQualifier scenario: two namespace paths and what was computed
    pathPc, path1, path2, alias1, alias2, relSelf, localSelf,
    \* getNames scenario: the entity, its namespace, the CSN and the result
    namePc, nmEntity, nmNamespace, nmCson, nmOut,
    \* flattening scenario: the implementation used, the context source file,
    \* the closure being converted, the classes produced, the merge passes done
    flPc, flImpl, flContext, flClosure, flClasses, flMerges,
    \* emission scenario: the source file, the CSN, the number of namespaces
    \* written and the files written for them
    emPc, emSource, emCson, emWritten, emFiles,
    \* function call scenario: the function called, its arguments, its result
    callPc, callFn, callArgs, callResult,
    \* Namespace scenario: the definitions map, the target flag, the four
    \* lists of the constructed Namespace and the declarations added to the source
    nsPc, nsDefinitions, nsTargetJavascript, nsLists, nsSource,
    \* Program.run scenario: the options, the output directory and the files in
    \* it, the parsed model, the source file generated and the exit status
    runPc, runOptions, runDisk, runParsed, runSource, runExit,
    \* pending saves scenario: the source file, the CSN, the number of
    \* namespaces handed to writeNamespace, the saves started and not yet
    \* completed, and the content stored under each path
    svPc, svSource, svCson, svStarted, svPending, svDisk

pathVars == <<pathPc, path1, path2, alias1, alias2, relSelf, localSelf>>

nameVars == <<namePc, nmEntity, nmNamespace, nmCson, nmOut>>

flatVars == <<flPc, flImpl, flContext, flClosure, flClasses, flMerges>>

emitVars == <<emPc, emSource, emCson, emWritten, emFiles>>

callVars == <<callPc, callFn, callArgs, callResult>>

namespaceVars == <<nsPc, nsDefinitions, nsTargetJavascript, nsLists, nsSource>>

runVars == <<runPc, runOptions, runDisk, runParsed, runSource, runExit>>

saveVars == <<svPc, svSource, svCson, svStarted, svPending, svDisk>>

vars == <<pathVars, nameVars, flatVars, emitVars, callVars, namespaceVars, runVars,
          saveVars>>

\* the variables of the other scenarios
exceptPath ==
    <<nameVars, flatVars, emitVars, callVars, namespaceVars, runVars,
      saveVars>>

exceptName ==
    <<pathVars, flatVars, emitVars, callVars, namespaceVars, runVars,
      saveVars>>

exceptFlat ==
    <<pathVars, nameVars, emitVars, callVars, namespaceVars, runVars,
      saveVars>>

exceptEmit ==
    <<pathVars, nameVars, flatVars, callVars, namespaceVars, runVars,
      saveVars>>

exceptCall ==
    <<pathVars, nameVars, flatVars, emitVars, namespaceVars, runVars,
      saveVars>>

exceptNamespace ==
    <<pathVars, nameVars, flatVars, emitVars, callVars, runVars,
      saveVars>>

exceptRun ==
    <<pathVars, nameVars, flatVars, emitVars, callVars, namespaceVars,
      saveVars>>

exceptSave ==
    <<pathVars, nameVars, flatVars, emitVars, callVars, namespaceVars, runVars>>

(***************************************************************************)
(* Each scenario has its own specification; the variables of the other     *)
(* scenarios stay idle in it.                                              *)
(***************************************************************************)
PathIdle ==
    /\ pathPc = "idle"
    /\ path1 = <<>> /\ path2 = <<>>
    /\ alias1 = <<>> /\ alias2 = <<>>
    /\ relSelf = <<>> /\ localSelf = FALSE

NameIdle ==
    /\ namePc = "idle"
    /\ nmEntity = <<>> /\ nmNamespace = <<>>
    /\ nmCson = << >>
    /\ nmOut = <<>>

FlatIdle ==
    /\ flPc = "idle" /\ flImpl = "none"
    /\ flContext = <<>> /\ flClosure = <<>> /\ flClasses = <<>>
    /\ flMerges = 0

EmitIdle ==
    /\ emPc = "idle"
    /\ emSource = <<>> /\ emCson = << >>
    /\ emWritten = 0 /\ emFiles = <<>>

CallIdle ==
    /\ callPc = "idle" /\ callFn = "none"
    /\ callArgs = <<>> /\ callResult = <<>>

NamespaceIdle ==
    /\ nsPc = "idle"
    /\ nsDefinitions = <<>> /\ nsTargetJavascript = FALSE
    /\ nsLists = <<>> /\ nsSource = <<>>

RunIdle ==
    /\ runPc = "idle"
    /\ runOptions = <<>> /\ runDisk = <<>> /\ runParsed = <<>>
    /\ runSource = <<>> /\ runExit = <<>>

SaveIdle ==
    /\ svPc = "idle"
    /\ svSource = <<>> /\ svCson = << >>
    /\ svStarted = 0 /\ svPending = {} /\ svDisk = << >>

\* all scenarios but one are idle
OthersIdle(scenario) ==
    /\ scenario = "path" \/ PathIdle
    /\ scenario = "name" \/ NameIdle
    /\ scenario = "flat" \/ FlatIdle
    /\ scenario = "emit" \/ EmitIdle
    /\ scenario = "call" \/ CallIdle
    /\ scenario = "namespace" \/ NamespaceIdle
    /\ scenario = "run" \/ RunIdle
    /\ scenario = "save" \/ SaveIdle

(***************************************************************************)
(* Bounds of the model                                                     *)
(***************************************************************************)
\* longest namespace path (in characters) drawn as an input
MaxPathLen == 3

\* most properties an ancestor interface declares
MaxAncestorProps == 2

\* most properties the flattened entity declares itself
MaxOwnProps == 1

\* how often the ancestors are merged into the same class
MaxMerges == 2

\* most properties of the entity whose namespace is emitted
MaxEmitProps == 2

\* longest tail appended to a stem to make a name to inflect
MaxTailLen == 2

\* most entries of a definitions map
MaxDefinitions == 4

\* longest array given to takeRight
MaxArrayLen == 3

\* longest string given to startCase
MaxStringLen == 3

(***************************************************************************)
(* String helpers (JavaScript String / Array built-ins)                    *)
(***************************************************************************)
Range(s) == { s[i] : i \in 1..Len(s) }

\* s.replace(/c/g, d) for single characters c, d
ReplaceAll(s, c, d) == [ i \in 1..Len(s) |-> IF s[i] = c THEN d ELSE s[i] ]

RECURSIVE SplitFrom(_, _, _, _, _)
SplitFrom(s, c, i, cur, acc) ==
    IF i > Len(s) THEN Append(acc, cur)
    ELSE IF s[i] = c THEN SplitFrom(s, c, i + 1, <<>>, Append(acc, cur))
    ELSE SplitFrom(s, c, i + 1, Append(cur, s[i]), acc)

\* s.split(c) for a single-character separator: "" splits to [""]
Split(s, c) == SplitFrom(s, c, 1, <<>>, <<>>)

RECURSIVE Join(_, _)
\* parts.join(sep)
Join(parts, sep) ==
    IF Len(parts) = 0 THEN <<>>
    ELSE IF Len(parts) = 1 THEN parts[1]
    ELSE parts[1] \o sep \o Join(Tail(parts), sep)

\* xs.slice(0, -1)
Front(xs) == IF Len(xs) = 0 THEN <<>> ELSE SubSeq(xs, 1, Len(xs) - 1)

\* xs.slice(-1)
LastOnly(xs) == IF Len(xs) = 0 THEN <<>> ELSE <<xs[Len(xs)]>>

RECURSIVE Flatten(_)
\* xss.reduce((prev, curr) => prev.concat(curr), [])
Flatten(xss) == IF Len(xss) = 0 THEN <<>> ELSE xss[1] \o Flatten(Tail(xss))

RECURSIVE Unique(_, _)
\* [...new Set(xs)]: the first occurrence of every element, in order
Unique(xs, seen) ==
    IF Len(xs) = 0 THEN <<>>
    ELSE IF xs[1] \in seen THEN Unique(Tail(xs), seen)
    ELSE <<xs[1]>> \o Unique(Tail(xs), seen \cup {xs[1]})

(***************************************************************************)
(* node's posix path module, on "/"-separated strings                      *)
(***************************************************************************)
\* process.cwd(), as path segments
Cwd == << <<"w">> >>

DotDot == <<".", ".">>

RECURSIVE NormalizeSegs(_, _, _)
\* normalizeString: drops "" and ".", resolves ".." against what precedes it
NormalizeSegs(segs, out, allowAbove) ==
    IF Len(segs) = 0 THEN out
    ELSE LET s == segs[1] IN
         IF s = <<>> \/ s = <<".">> THEN NormalizeSegs(Tail(segs), out, allowAbove)
         ELSE IF s = DotDot
              THEN IF Len(out) > 0 /\ out[Len(out)] # DotDot
                   THEN NormalizeSegs(Tail(segs), Front(out), allowAbove)
                   ELSE IF allowAbove
                        THEN NormalizeSegs(Tail(segs), Append(out, s), allowAbove)
                        ELSE NormalizeSegs(Tail(segs), out, allowAbove)
              ELSE NormalizeSegs(Tail(segs), Append(out, s), allowAbove)

\* path.join(...parts): non-empty parts joined by "/" and normalized; "." if empty
PathJoin(parts) ==
    LET nonEmpty == SelectSeq(parts, LAMBDA p : p # <<>>)
        segs     == NormalizeSegs(Split(Join(nonEmpty, <<"/">>), "/"), <<>>, TRUE)
    IN IF Len(segs) = 0 THEN <<".">> ELSE Join(segs, <<"/">>)

\* path.resolve(p) of a relative path, as the absolute path's segments
PathResolve(p) == NormalizeSegs(Cwd \o Split(p, "/"), <<>>, FALSE)

RECURSIVE CommonPrefixLen(_, _)
CommonPrefixLen(xs, ys) ==
    IF Len(xs) = 0 \/ Len(ys) = 0 \/ xs[1] # ys[1] THEN 0
    ELSE 1 + CommonPrefixLen(Tail(xs), Tail(ys))

\* path.relative(from, to)
PathRelative(from, to) ==
    LET f  == PathResolve(from)
        t  == PathResolve(to)
        k  == CommonPrefixLen(f, t)
        up == [ i \in 1..(Len(f) - k) |-> DotDot ]
    IN IF f = t THEN <<>>
       ELSE Join(up \o SubSeq(t, k + 1, Len(t)), <<"/">>)

(***************************************************************************)
(* jsemitter.ts: ROOT_NAMESPACE_NAME, splitNamespace, ModuleQualifier      *)
(***************************************************************************)
ROOT_NAMESPACE_NAME == <<"$", "R", "O", "O", "T", "$">>

\* splitNamespace(fqName) = [namespaceName, ancestorName]
splitNamespace(fqName) ==
    LET tokens == Split(fqName, ".")
    IN << Join(Front(tokens), <<".">>), Join(LastOnly(tokens), <<>>) >>

\* new ModuleQualifier(path, containsClass, nonScalar); hasClazz is FALSE when
\* this.clazz is left undefined
ModuleQualifier(path, containsClass, nonScalar) ==
    IF containsClass
    THEN [ module |-> splitNamespace(path)[1], hasClazz |-> TRUE,
           clazz |-> splitNamespace(path)[2], nonScalar |-> nonScalar ]
    ELSE [ module |-> path, hasClazz |-> FALSE, clazz |-> <<>>,
           nonScalar |-> nonScalar ]

getNamespace(mq) == mq.module

getDirectoryKeepDots(mq) == getNamespace(mq)

getDirectory(mq) == ReplaceAll(getNamespace(mq), ".", "/")

\* ["_" + namespace.replace(/\./g, "_"), clazz].filter(x => !!x).join(".")
getAlias(mq) ==
    Join(SelectSeq(<< <<"_">> \o ReplaceAll(getNamespace(mq), ".", "_"), mq.clazz >>,
                   LAMBDA x : x # <<>>), <<".">>)

getRelativePath(mq, rel) == PathRelative(rel, getDirectory(mq))

isLocalNamespace(mq, rel) == getRelativePath(mq, rel) = <<>>

\* the directory form of a namespace name, as writeNamespace computes it:
\* path.join(...ns.getName().split("."))
RelOf(nsName) == PathJoin(Split(nsName, "."))

(***************************************************************************)
(* CSN (the compiled schema): a function from fully-qualified names to     *)
(* definitions. An optional value is a sequence of length 0 (undefined)    *)
(* or 1.                                                                   *)
(***************************************************************************)
Undefined == <<>>

Some(v) == <<v>>

\* cson?.definitions?.[fq]?.[key]?.["="]
Annotation(cson, fq, key) ==
    IF fq \in DOMAIN cson THEN cson[fq][key] ELSE Undefined

\* a ?? b
Coalesce(a, b) == IF a # Undefined THEN a[1] ELSE b

(***************************************************************************)
(* jsemitter.ts: getNames                                                  *)
(***************************************************************************)
Many == <<"M", "a", "n", "y">>

\* [singular, plural] of entity foo.bar.Baz
getNames(entityName, cson, namespace) ==
    LET fq == Join(<<namespace, entityName>>, <<".">>)
        singularAnnotation == Annotation(cson, fq, "singular")
        pluralAnnotation   == Annotation(cson, fq, "singular")
        singular == Coalesce(singularAnnotation, entityName)
        plural   == Coalesce(pluralAnnotation, entityName \o Many)
    IN <<singular, plural>>

(***************************************************************************)
(* getNames scenario                                                       *)
(***************************************************************************)
Category   == <<"C", "a", "t", "e", "g", "o", "r", "y">>
Categories == <<"C", "a", "t", "e", "g", "o", "r", "i", "e", "s">>
Address    == <<"A", "d", "d", "r", "e", "s", "s">>
Addresses  == <<"A", "d", "d", "r", "e", "s", "s", "e", "s">>
Book       == <<"B", "o", "o", "k">>
Books      == <<"B", "o", "o", "k", "s">>

NameEntities == {Category, Address, Book, Books}

NameNamespaces == { <<"a">>, <<"a", ".", "b">> }

AnnotationValues == {Book, Books, Category}

OptAnnotations == {Undefined} \cup { Some(v) : v \in AnnotationValues }

\* the definition of an entity, as far as getNames reads it
NameDefinitions == [ singular : OptAnnotations, plural : OptAnnotations ]

NameStart ==
    /\ namePc = "new"
    /\ nmEntity \in NameEntities
    /\ nmNamespace \in NameNamespaces
    /\ \/ nmCson = << >>
       \/ \E d \in NameDefinitions :
             nmCson = (Join(<<nmNamespace, nmEntity>>, <<".">>) :> d)
    /\ nmOut = <<>>

GetNames ==
    /\ namePc = "new"
    /\ nmOut' = getNames(nmEntity, nmCson, nmNamespace)
    /\ namePc' = "named"
    /\ UNCHANGED <<nmEntity, nmNamespace, nmCson, exceptName>>

NameInit == NameStart /\ OthersIdle("name")

NameNext == GetNames

SpecNames == NameInit /\ [][NameNext]_vars

NmFq == Join(<<nmNamespace, nmEntity>>, <<".">>)

\* the entity's definition carries both annotations
NmAnnotated ==
    /\ NmFq \in DOMAIN nmCson
    /\ nmCson[NmFq].singular # Undefined
    /\ nmCson[NmFq].plural # Undefined

\* the entity's definition carries neither annotation
NmPlain ==
    \/ NmFq \notin DOMAIN nmCson
    \/ (nmCson[NmFq].singular = Undefined /\ nmCson[NmFq].plural = Undefined)

(***************************************************************************)
(* Inputs: namespace paths                                                 *)
(***************************************************************************)
PathChars == {"a", "b", "_", "."}

SeqsUpTo(S, n) == UNION { [1..k -> S] : k \in 0..n }

\* dot-separated identifiers: every segment is a non-empty identifier
IsNamespacePath(p) ==
    /\ p # <<>>
    /\ \A i \in 1..Len(Split(p, ".")) : Split(p, ".")[i] # <<>>

NamespacePaths == { p \in SeqsUpTo(PathChars, MaxPathLen) : IsNamespacePath(p) }

\* every namespace name, with the unnamed root and the root placeholder
NamespaceNames == NamespacePaths \cup { <<>>, ROOT_NAMESPACE_NAME }

(***************************************************************************)
(* ModuleQualifier scenario                                                *)
(***************************************************************************)
PathStart ==
    /\ pathPc = "new"
    /\ path1 \in NamespaceNames
    /\ path2 \in NamespaceNames
    /\ alias1 = <<>> /\ alias2 = <<>>
    /\ relSelf = <<>> /\ localSelf = FALSE

\* getAlias() of the qualifiers of both paths
GetAlias ==
    /\ pathPc = "new"
    /\ alias1' = getAlias(ModuleQualifier(path1, FALSE, FALSE))
    /\ alias2' = getAlias(ModuleQualifier(path2, FALSE, FALSE))
    /\ pathPc' = "aliased"
    /\ UNCHANGED <<path1, path2, relSelf, localSelf, exceptPath>>

\* getRelativePath(rel) / isLocalNamespace(rel) of a namespace against its own
\* directory form
GetRelativePath ==
    /\ pathPc = "new"
    /\ relSelf' = getRelativePath(ModuleQualifier(path1, FALSE, FALSE), RelOf(path1))
    /\ localSelf' = isLocalNamespace(ModuleQualifier(path1, FALSE, FALSE), RelOf(path1))
    /\ pathPc' = "related"
    /\ UNCHANGED <<path1, path2, alias1, alias2, exceptPath>>

PathNext == GetAlias \/ GetRelativePath

PathInit == PathStart /\ OthersIdle("path")

SpecPath == PathInit /\ [][PathNext]_vars

(***************************************************************************)
(* jsemitter.ts: getTypeText, addOrAmendProperty, interfacesToClasses      *)
(*                                                                         *)
(* An interface is [name, extends, properties]: extends is the list of     *)
(* the extends clauses' texts, a property signature is [name, type,        *)
(* readable], readable telling whether p.getType() can be read.            *)
(* A class structure is [name, properties, extends], a property of it is   *)
(* [name, type], extends is one string.                                    *)
(***************************************************************************)
RECURSIVE IndexOfFrom(_, _, _)
\* first index >= i at which sub occurs in s, 0 if none
IndexOfFrom(s, sub, i) ==
    IF i + Len(sub) - 1 > Len(s) THEN 0
    ELSE IF SubSeq(s, i, i + Len(sub) - 1) = sub THEN i
    ELSE IndexOfFrom(s, sub, i + 1)

RECURSIVE SplitSep(_, _)
\* s.split(sep) for a non-empty separator string
SplitSep(s, sep) ==
    LET k == IndexOfFrom(s, sep, 1)
    IN IF k = 0 THEN <<s>>
       ELSE <<SubSeq(s, 1, k - 1)>> \o SplitSep(SubSeq(s, k + Len(sep), Len(s)), sep)

RECURSIVE SplitAny(_, _, _, _)
\* s.split(/[cs]/) for a set cs of separator characters
SplitAny(s, cs, cur, acc) ==
    IF Len(s) = 0 THEN Append(acc, cur)
    ELSE IF s[1] \in cs THEN SplitAny(Tail(s), cs, <<>>, Append(acc, cur))
    ELSE SplitAny(Tail(s), cs, Append(cur, s[1]), acc)

\* s.replace(c, "") : removes the first occurrence only
RemoveFirst(s, c) ==
    LET k == IndexOfFrom(s, <<c>>, 1)
    IN IF k = 0 THEN s ELSE SubSeq(s, 1, k - 1) \o SubSeq(s, k + 1, Len(s))

RECURSIVE TrimStart(_)
TrimStart(s) == IF Len(s) > 0 /\ s[1] = " " THEN TrimStart(Tail(s)) ELSE s

RECURSIVE TrimEnd(_)
TrimEnd(s) == IF Len(s) > 0 /\ s[Len(s)] = " " THEN TrimEnd(Front(s)) ELSE s

\* s.trim()
Trim(s) == TrimEnd(TrimStart(s))

\* p.getText(): "name: type;" of a property signature, "type name = type;" of
\* a type alias declaration
DeclarationText(p) ==
    IF "isTypeAlias" \in DOMAIN p
    THEN <<"t", "y", "p", "e", " ">> \o p.name \o <<" ", "=", " ">> \o p.type \o <<";">>
    ELSE p.name \o <<":", " ">> \o p.type \o <<";">>

\* tryer(() => p.getType().getText()): [error, undefined] when the read throws
tryer(p) == IF p.readable THEN Some(p.type) ELSE Undefined

\* the type text of a property: the structural read, else the text after the
\* last ":" or "=" of the declaration
getTypeText(p) ==
    LET result == tryer(p)
    IN IF result # Undefined /\ result[1] # <<>>
       THEN result[1]
       ELSE Trim(Join(LastOnly(SplitAny(RemoveFirst(DeclarationText(p), ";"),
                                        {":", "="}, <<>>, <<>>)), <<>>))

UnionSep == <<" ", "|", " ">>

\* index of the first element of xs named n, 0 if none: xs.find(x => x.name === n)
FindByName(xs, n) ==
    IF \E i \in 1..Len(xs) : xs[i].name = n
    THEN CHOOSE i \in 1..Len(xs) :
            xs[i].name = n /\ \A j \in 1..(i - 1) : xs[j].name # n
    ELSE 0

addOrAmendPropertyNoDedup(props, prop) ==
    LET k == FindByName(props, prop.name)
    IN IF k # 0
       THEN [ props EXCEPT ![k].type = @ \o UnionSep \o getTypeText(prop) ]
       ELSE Append(props, [ name |-> prop.name, type |-> getTypeText(prop) ])

addOrAmendPropertyPrepend(props, prop) ==
    LET k  == FindByName(props, prop.name)
        tt == getTypeText(prop)
    IN IF k # 0
       THEN IF tt \notin Range(SplitSep(props[k].type, UnionSep))
            THEN [ props EXCEPT ![k].type = tt \o UnionSep \o @ ]
            ELSE props
       ELSE Append(props, [ name |-> prop.name, type |-> tt ])

\* addOrAmendProperty(clazz, prop), on clazz.properties
addOrAmendProperty(props, prop) ==
    LET k  == FindByName(props, prop.name)
        tt == getTypeText(prop)
    IN IF k # 0
       THEN IF tt \notin Range(SplitSep(props[k].type, UnionSep))
            THEN [ props EXCEPT ![k].type = @ \o UnionSep \o tt ]
            ELSE props
       ELSE Append(props, [ name |-> prop.name, type |-> tt ])

RECURSIVE AmendAll(_, _)
\* heirlooms.forEach(p => addOrAmendProperty(clazz, p))
AmendAll(props, heirlooms) ==
    IF Len(heirlooms) = 0 THEN props
    ELSE AmendAll(addOrAmendProperty(props, heirlooms[1]), Tail(heirlooms))

\* context.getNamespace(nsName)?.getInterfaces(), context.getInterfaces() for ""
ContextInterfaces(context, nsName) ==
    IF nsName = <<>> THEN context.interfaces
    ELSE LET k == FindByName(context.namespaces, nsName)
         IN IF k = 0 THEN <<>> ELSE context.namespaces[k].interfaces

\* the properties of the ancestor interface a fully-qualified name resolves to
AncestorProperties(context, fqAncestorName) ==
    LET nsName       == splitNamespace(fqAncestorName)[1]
        ancestorName == splitNamespace(fqAncestorName)[2]
        candidates   == ContextInterfaces(context, nsName)
        k            == FindByName(candidates, ancestorName)
    IN IF k = 0 THEN <<>> ELSE candidates[k].properties

RECURSIVE MergeAncestors(_, _, _)
\* ancestors.forEach(fqAncestorName => ... addOrAmendProperty(clazz, p))
MergeAncestors(props, ancestors, context) ==
    IF Len(ancestors) = 0 THEN props
    ELSE MergeAncestors(AmendAll(props, AncestorProperties(context, ancestors[1])),
                        Tail(ancestors), context)

\* the class structure built from an interface, before the ancestors are merged
ClassOfInterface(i, plainJs) ==
    [ name       |-> i.name,
      properties |-> [ k \in 1..Len(i.properties) |->
                        [ name |-> i.properties[k].name,
                          type |-> IF plainJs THEN <<>>
                                   ELSE getTypeText(i.properties[k]) ] ],
      extends    |-> Join(i.extends, <<",">>) ]

\* the body of interfacesToClasses for one interface
FlattenInterface(i, context, plainJs) ==
    LET clazz     == ClassOfInterface(i, plainJs)
        ancestors == Split(clazz.extends, ",")
    IN [ clazz EXCEPT !.properties = MergeAncestors(@, ancestors, context),
                      !.extends = <<>> ]

\* the classes interfacesToClasses adds to the destination closure
interfacesToClasses(sourceInterfaces, context, plainJs) ==
    [ k \in 1..Len(sourceInterfaces) |->
        FlattenInterface(sourceInterfaces[k], context, plainJs) ]

(***************************************************************************)
(* types/namespace.ts: Namespace.addEntityDeclarations (targetJavascript)  *)
(***************************************************************************)
\* the class declaration structures of the namespace's entities
EntityDeclarations(entities) ==
    [ k \in 1..Len(entities) |->
        [ name       |-> entities[k].name,
          properties |-> [ j \in 1..Len(entities[k].properties) |->
                            [ name |-> entities[k].properties[j].name,
                              type |-> entities[k].properties[j].type ] ],
          extends    |-> Join(entities[k].extends, <<",">>) ] ]

\* one heirloom merged into clazz.properties
InheritProperty(props, h) ==
    LET k == FindByName(props, h.name)
    IN IF k = 0
       THEN Append(props, [ name |-> h.name, type |-> h.type ])
       ELSE [ props EXCEPT ![k].type = @ \o UnionSep \o h.type ]

RECURSIVE InheritAll(_, _)
InheritAll(props, heirlooms) ==
    IF Len(heirlooms) = 0 THEN props
    ELSE InheritAll(InheritProperty(props, heirlooms[1]), Tail(heirlooms))

RECURSIVE InheritFrom(_, _, _)
\* the ancestors named in ancNames, found among classes, merged in order
InheritFrom(props, ancNames, classes) ==
    IF Len(ancNames) = 0 THEN props
    ELSE LET k == FindByName(classes, ancNames[1])
         IN InheritFrom(IF k = 0 THEN props
                        ELSE InheritAll(props, classes[k].properties),
                        Tail(ancNames), classes)

RECURSIVE RollOut(_, _)
\* classes.forEach(clazz => ...) from class number k on, each class updated in place
RollOut(classes, k) ==
    IF k > Len(classes) THEN classes
    ELSE RollOut([ classes EXCEPT
                     ![k].properties =
                         InheritFrom(@, Split(classes[k].extends, ","), classes),
                     ![k].extends = <<>> ], k + 1)

\* the classes addEntityDeclarations adds to the source
addEntityDeclarations(entityDecls) == RollOut(entityDecls, 1)

(***************************************************************************)
(* Flattening scenario: entity Employee and its ancestors Person and Named *)
(***************************************************************************)
Str      == <<"s", "t", "r", "i", "n", "g">>
Id       == <<"i", "d">>
Name     == <<"n", "a", "m", "e">>
Person   == <<"P", "e", "r", "s", "o", "n">>
Named    == <<"N", "a", "m", "e", "d">>
Employee == <<"E", "m", "p", "l", "o", "y", "e", "e">>
NsA      == <<"a">>
NsB      == <<"b">>

PropNames == {Id, Name}

TypeTexts == {Str, <<"A">>, <<"B">>}

\* the types Employee gives its own properties
OwnTypeTexts == {Str, <<"B">>}

PropertySignatures(types, readable) ==
    [ name : PropNames, type : types, readable : {readable} ]

\* property lists of at most n properties with distinct names
PropertyLists(n, types, readable) ==
    { ps \in SeqsUpTo(PropertySignatures(types, readable), n) :
        \A i, j \in 1..Len(ps) : i # j => ps[i].name # ps[j].name }

\* the orders in which Employee may list its ancestors
AncestorOrders ==
    { <<>>, <<Person>>, <<Named>>, <<Person, Named>>, <<Named, Person>> }

Qualified(nsName, names) ==
    [ k \in 1..Len(names) |-> Join(<<nsName[names[k]], names[k]>>, <<".">>) ]

\* jsemitter.ts converts the namespace of Employee, whose ancestors live in
\* the namespaces a and b of the context; namespace.ts rolls out the entities
\* of one namespace, which holds Employee and its ancestors. The types of
\* Named's properties cannot be read structurally.
FlatStart ==
    /\ flPc = "new"
    /\ flImpl \in {"emitter", "namespace"}
    /\ flClasses = <<>>
    /\ flMerges = 0
    /\ \E order \in AncestorOrders :
       \E pp \in PropertyLists(MaxAncestorProps, TypeTexts, TRUE) :
       \E np \in PropertyLists(MaxAncestorProps, TypeTexts, FALSE) :
       \E ep \in PropertyLists(MaxOwnProps, OwnTypeTexts, TRUE) :
          LET person == [ name |-> Person, extends |-> <<>>, properties |-> pp ]
              named  == [ name |-> Named, extends |-> <<>>, properties |-> np ]
              home   == (Person :> NsA) @@ (Named :> NsB)
          IN IF flImpl = "namespace"
             THEN /\ flClosure = << person, named,
                                    [ name |-> Employee, extends |-> order,
                                      properties |-> ep ] >>
                  /\ flContext = [ interfaces |-> <<>>, namespaces |-> <<>> ]
             ELSE /\ flClosure = << [ name |-> Employee,
                                      extends |-> Qualified(home, order),
                                      properties |-> ep ] >>
                  /\ flContext =
                        [ interfaces |-> <<>>,
                          namespaces |->
                            << [ name |-> NsA, interfaces |-> <<person>> ],
                               [ name |-> NsB, interfaces |-> <<named>> ] >> ]

\* the interface of Employee in the closure, and its class once flattened
EmployeeInterface == flClosure[FindByName(flClosure, Employee)]

EmployeeClass == flClasses[FindByName(flClasses, Employee)]

\* generateStubs' interfacesToClasses(ns, context, target, false)
InterfacesToClasses ==
    /\ flPc = "new" /\ flImpl = "emitter"
    /\ flClasses' = interfacesToClasses(flClosure, flContext, FALSE)
    /\ flMerges' = 1
    /\ flPc' = "flattened"
    /\ UNCHANGED <<flImpl, flContext, flClosure, exceptFlat>>

\* Namespace.addEntityDeclarations with targetJavascript set
AddEntityDeclarations ==
    /\ flPc = "new" /\ flImpl = "namespace"
    /\ flClasses' = addEntityDeclarations(EntityDeclarations(flClosure))
    /\ flMerges' = 1
    /\ flPc' = "flattened"
    /\ UNCHANGED <<flImpl, flContext, flClosure, exceptFlat>>

\* the ancestors of Employee merged into its class once more (jsemitter.ts)
MergeAgainEmitter ==
    /\ flPc = "flattened" /\ flImpl = "emitter"
    /\ flMerges < MaxMerges
    /\ flClasses' =
          [ flClasses EXCEPT ![FindByName(flClasses, Employee)].properties =
              MergeAncestors(@, Split(Join(EmployeeInterface.extends, <<",">>), ","),
                             flContext) ]
    /\ flMerges' = flMerges + 1
    /\ UNCHANGED <<flPc, flImpl, flContext, flClosure, exceptFlat>>

\* the ancestors of Employee merged into its class once more (namespace.ts)
MergeAgainNamespace ==
    /\ flPc = "flattened" /\ flImpl = "namespace"
    /\ flMerges < MaxMerges
    /\ flClasses' =
          [ flClasses EXCEPT ![FindByName(flClasses, Employee)].properties =
              InheritFrom(@, Split(Join(EmployeeInterface.extends, <<",">>), ","),
                          flClasses) ]
    /\ flMerges' = flMerges + 1
    /\ UNCHANGED <<flPc, flImpl, flContext, flClosure, exceptFlat>>

FlatInit == FlatStart /\ OthersIdle("flat")

FlatNext ==
    \/ InterfacesToClasses
    \/ AddEntityDeclarations
    \/ MergeAgainEmitter
    \/ MergeAgainNamespace

SpecFlatten == FlatInit /\ [][FlatNext]_vars

(***************************************************************************)
(* jsemitter.ts: resolve, getImportPaths, generateStubs, writeNamespace    *)
(*                                                                         *)
(* A CSN definition is [singular, plural, elements]; elements maps the     *)
(* names of the entity's elements to [target, cardinality], both optional; *)
(* a cardinality is [max], "*" for to-many and "1" for an explicit to-one. *)
(* A namespace of the source is [name, interfaces, typeAliases, enums].    *)
(***************************************************************************)
Texts     == <<"t", "e", "x", "t", "s">>
Localized == <<"l", "o", "c", "a", "l", "i", "z", "e", "d">>

\* cson?.definitions?.[fqEntity]?.["elements"]?.[propName]
ElementOf(cson, fqEntity, propName) ==
    IF fqEntity \in DOMAIN cson /\ propName \in DOMAIN cson[fqEntity].elements
    THEN Some(cson[fqEntity].elements[propName])
    ELSE Undefined

\* !!x of an optional string
Truthy(opt) == opt # Undefined /\ opt[1] # <<>>

\* resolve(fqEntity, propName, cson): the qualifier of the property's
\* association target, if any
resolve(fqEntity, propName, cson) ==
    LET element == ElementOf(cson, fqEntity, propName)
    IN IF propName \in {Texts, Localized}
          \/ element = Undefined
          \/ ~Truthy(element[1].target)
       THEN Undefined
       ELSE Some(ModuleQualifier(element[1].target[1], TRUE,
                                 element[1].cardinality # Undefined))

\* the namespaces one interface refers to: its extends clauses, then its
\* properties' association targets
InterfaceReferences(nsName, i, cson) ==
    LET exts     == SelectSeq(i.extends, LAMBDA e : e # <<>>)
        resolved == SelectSeq(
                        [ k \in 1..Len(i.properties) |->
                            resolve(Join(<<nsName, i.name>>, <<".">>),
                                    i.properties[k].name, cson) ],
                        LAMBDA q : q # Undefined)
    IN [ k \in 1..Len(exts) |-> splitNamespace(exts[k])[1] ]
       \o [ k \in 1..Len(resolved) |-> getNamespace(resolved[k][1]) ]

getImportPathsWithDuplicates(ns, rel, source, cson) ==
    LET refs == Flatten([ k \in 1..Len(ns.interfaces) |->
                            InterfaceReferences(ns.name, ns.interfaces[k], cson) ])
        qs   == [ k \in 1..Len(refs) |-> ModuleQualifier(refs[k], FALSE, FALSE) ]
    IN SelectSeq(qs, LAMBDA q : ~isLocalNamespace(q, rel))

\* the import paths when only the extends clauses are browsed
getImportPathsFromExtends(ns, rel, source, cson) ==
    LET refs == Unique(Flatten([ k \in 1..Len(ns.interfaces) |->
                            LET exts == SelectSeq(ns.interfaces[k].extends,
                                                  LAMBDA e : e # <<>>)
                            IN [ j \in 1..Len(exts) |-> splitNamespace(exts[j])[1] ] ]), {})
        qs   == [ k \in 1..Len(refs) |-> ModuleQualifier(refs[k], FALSE, FALSE) ]
    IN SelectSeq(qs, LAMBDA q : ~isLocalNamespace(q, rel))

\* getImportPaths(ns, rel, source, cson): the qualifiers of the namespaces to import
getImportPaths(ns, rel, source, cson) ==
    LET refs == Unique(Flatten([ k \in 1..Len(ns.interfaces) |->
                            InterfaceReferences(ns.name, ns.interfaces[k], cson) ]), {})
        qs   == [ k \in 1..Len(refs) |-> ModuleQualifier(refs[k], FALSE, FALSE) ]
    IN SelectSeq(qs, LAMBDA q : ~isLocalNamespace(q, rel))

\* tryer(() => m.getValue()), else the text after the last ":" or "=" of "name = value"
getMemberValue(m) ==
    IF m.readable /\ m.value # <<>>
    THEN m.value
    ELSE Trim(Join(LastOnly(SplitAny(RemoveFirst(m.name \o <<" ", "=", " ">> \o m.value, ";"),
                                     {":", "="}, <<>>, <<>>)), <<>>))

ArraySuffix == <<"[", "]">>

\* the type writeNamespace gives property p of interface i in index.d.ts
EmittedPropertyType(nsName, i, p, cson) ==
    LET pns    == resolve(Join(<<nsName, i.name>>, <<".">>), p.name, cson)
        nsmq   == ModuleQualifier(nsName, FALSE, FALSE)
        suffix == IF pns # Undefined /\ pns[1].nonScalar THEN ArraySuffix ELSE <<>>
    IN (IF pns = Undefined THEN getTypeText(p)
        ELSE IF getNamespace(pns[1]) = getNamespace(nsmq) THEN pns[1].clazz
        ELSE getAlias(pns[1])) \o suffix

\* the interface writeNamespace adds to index.d.ts for interface i; reading the
\* type of one of its properties gives the text it was added with
DtsInterface(nsName, i, cson) ==
    LET nsmq == ModuleQualifier(nsName, FALSE, FALSE)
    IN [ name       |-> getNames(i.name, cson, nsName)[1],
         extends    |-> [ k \in 1..Len(i.extends) |->
                            LET mq == ModuleQualifier(i.extends[k], TRUE, FALSE)
                            IN IF getNamespace(mq) = getNamespace(nsmq)
                               THEN mq.clazz ELSE getAlias(mq) ],
         properties |-> [ k \in 1..Len(i.properties) |->
                            [ name     |-> i.properties[k].name,
                              type     |-> EmittedPropertyType(nsName, i, i.properties[k], cson),
                              readable |-> TRUE ] ] ]

\* the classes interfacesToClasses(ns, context, target, false) adds to target,
\* a source file created just before: each is exported
StubClasses(interfaces, context) ==
    LET classes == interfacesToClasses(interfaces, context, FALSE)
    IN [ k \in 1..Len(classes) |->
           [ name       |-> classes[k].name,
             isExported |-> TRUE,
             properties |-> classes[k].properties ] ]

\* c.getProperties().forEach((p) => p.setType("")); c.setIsExported(false)
StripClass(c) ==
    [ name       |-> c.name,
      isExported |-> FALSE,
      properties |-> [ j \in 1..Len(c.properties) |->
                        [ name |-> c.properties[j].name, type |-> <<>> ] ] ]

generateStubsStrippingFirst(interfaces, context) ==
    LET classes  == StubClasses(interfaces, context)
        stripped == [ k \in 1..Len(classes) |-> StripClass(classes[k]) ]
        exported == SelectSeq(stripped, LAMBDA c : c.isExported)
    IN [ classes |-> stripped,
         exports |-> [ k \in 1..Len(exported) |-> exported[k].name ] ]

\* the interfaces left in the source closure by interfacesToClasses: its
\* second pass removes them all when removeFromSource is set; no other
\* statement writes to the source closure or to the context, the class
\* structures and their properties being fresh objects
RemainingInterfaces(sourceInterfaces, removeFromSource) ==
    IF removeFromSource THEN <<>> ELSE sourceInterfaces

\* the interfaces of ns when the removal is left at its default
SourceAfterStubsRemoving(interfaces) == RemainingInterfaces(interfaces, TRUE)

\* the interfaces of ns after generateStubs(ns, target, context), which calls
\* interfacesToClasses(ns, context, target, false)
SourceAfterStubs(interfaces) == RemainingInterfaces(interfaces, FALSE)

\* generateStubs(ns, target, context): the classes of target and the names its
\* module.exports statement lists
generateStubs(interfaces, context) ==
    LET classes  == StubClasses(interfaces, context)
        exported == SelectSeq(classes, LAMBDA c : c.isExported)
    IN [ classes |-> [ k \in 1..Len(classes) |-> StripClass(classes[k]) ],
         exports |-> [ k \in 1..Len(exported) |-> exported[k].name ] ]

IndexDts == <<"i", "n", "d", "e", "x", ".", "d", ".", "t", "s">>
IndexJs  == <<"i", "n", "d", "e", "x", ".", "j", "s">>

\* writeNamespace(ns, output, source, cson): index.d.ts and index.js of ns
writeNamespace(ns, output, source, cson) ==
    LET rel       == PathJoin(Split(ns.name, "."))
        directory == IF ns.name = ROOT_NAMESPACE_NAME THEN output
                     ELSE PathJoin(<<output, rel>>)
        imps      == getImportPaths(ns, rel, source, cson)
        added     == [ k \in 1..Len(ns.interfaces) |->
                        DtsInterface(ns.name, ns.interfaces[k], cson) ]
        plurals   == [ k \in 1..Len(ns.interfaces) |->
                        [ name |-> getNames(ns.interfaces[k].name, cson, ns.name)[2],
                          type |-> getNames(ns.interfaces[k].name, cson, ns.name)[1]
                                      \o ArraySuffix ] ]
        aliases   == [ k \in 1..Len(ns.typeAliases) |->
                        [ name |-> ns.typeAliases[k].name,
                          type |-> getTypeText(ns.typeAliases[k]) ] ]
        enums     == [ k \in 1..Len(ns.enums) |->
                        [ name       |-> ns.enums[k].name,
                          isExported |-> TRUE,
                          members    |-> [ j \in 1..Len(ns.enums[k].members) |->
                                            [ name  |-> ns.enums[k].members[j].name,
                                              value |-> getMemberValue(ns.enums[k].members[j]) ] ] ] ]
    IN [ namespace |-> ns.name,
         dts |-> [ path        |-> PathJoin(<<directory, IndexDts>>),
                   imports     |-> [ k \in 1..Len(imps) |->
                                      [ moduleSpecifier |-> getRelativePath(imps[k], rel),
                                        namespaceImport |-> getAlias(imps[k]) ] ],
                   \* the structures handed to dTsFile.addInterface, each followed
                   \* by a dTsFile.save()
                   addedInterfaces |-> added,
                   \* interfacesToClasses(dTsFile, source, dTsFile, true, false)
                   \* turns every added interface into a class and removes it
                   interfaces  |-> <<>>,
                   classes     |-> interfacesToClasses(added, source, FALSE),
                   typeAliases |-> plurals \o aliases,
                   enums       |-> enums ],
         js  |-> [ path    |-> PathJoin(<<directory, IndexJs>>),
                   classes |-> generateStubs(ns.interfaces, source).classes,
                   exports |-> generateStubs(ns.interfaces, source).exports ] ]

(***************************************************************************)
(* Emission scenario: the namespaces a (Person), b (Named, an enum and a   *)
(* type alias) and the namespace of Employee, which is a or c              *)
(***************************************************************************)
NsC     == <<"c">>
Ref     == <<"r", "e", "f">>
Staff   == <<"S", "t", "a", "f", "f">>
Missing == <<"x", ".", "M", "i", "s", "s", "i", "n", "g">>
Output  == <<"o", "u", "t">>

FqPerson == NsA \o <<".">> \o Person
FqNamed  == NsB \o <<".">> \o Named

EmitPropNames == {Ref, Texts, Localized}

\* the cardinalities of a CSN association: { max: "*" } and { max: 1 }
ToMany == [ max |-> "*" ]
ToOne  == [ max |-> "1" ]

\* what the CSN says about a property of Employee: no element, an element
\* without target, or an association to Person (to-one, with or without an
\* explicit cardinality), to Named (to-many) or to a type that is not part of
\* the model
ElementChoices ==
    { [ present |-> FALSE, target |-> Undefined, cardinality |-> Undefined ],
      [ present |-> TRUE, target |-> Undefined, cardinality |-> Undefined ],
      [ present |-> TRUE, target |-> Some(FqPerson), cardinality |-> Undefined ],
      [ present |-> TRUE, target |-> Some(FqPerson), cardinality |-> Some(ToOne) ],
      [ present |-> TRUE, target |-> Some(FqNamed), cardinality |-> Some(ToMany) ],
      [ present |-> TRUE, target |-> Some(Missing), cardinality |-> Undefined ] }

EmitProperties == [ name : EmitPropNames, element : ElementChoices ]

EmitPropertyLists ==
    { ps \in SeqsUpTo(EmitProperties, MaxEmitProps) :
        \A i, j \in 1..Len(ps) : i # j => ps[i].name # ps[j].name }

PlainProperty(n) == [ name |-> n, type |-> Str, readable |-> TRUE ]

PlainElement == [ target |-> Undefined, cardinality |-> Undefined ]

PlainDefinition(names) ==
    [ singular |-> Undefined, plural |-> Undefined,
      elements |-> [ n \in names |-> PlainElement ] ]

EmitStart ==
    /\ emPc = "emitting"
    /\ emWritten = 0
    /\ emFiles = <<>>
    /\ \E home \in {NsA, NsC} :
       \E order \in AncestorOrders :
       \E ps \in EmitPropertyLists :
       \E annotation \in {Undefined, Some(Staff)} :
          LET person   == [ name |-> Person, extends |-> <<>>,
                            properties |-> <<PlainProperty(Id)>> ]
              named    == [ name |-> Named, extends |-> <<>>,
                            properties |-> <<PlainProperty(Id), PlainProperty(Name)>> ]
              employee == [ name |-> Employee,
                            extends |-> Qualified((Person :> NsA) @@ (Named :> NsB), order),
                            properties |-> [ k \in 1..Len(ps) |-> PlainProperty(ps[k].name) ] ]
              present  == { k \in 1..Len(ps) : ps[k].element.present }
              elements == [ n \in { ps[k].name : k \in present } |->
                              LET k == CHOOSE j \in present : ps[j].name = n
                              IN [ target |-> ps[k].element.target,
                                   cardinality |-> ps[k].element.cardinality ] ]
              nsA == [ name |-> NsA,
                       interfaces |-> IF home = NsA THEN <<person, employee>> ELSE <<person>>,
                       typeAliases |-> <<>>, enums |-> <<>> ]
              nsB == [ name |-> NsB, interfaces |-> <<named>>,
                       typeAliases |-> << [ name |-> <<"K", "e", "y">>, type |-> Str,
                                            readable |-> FALSE, isTypeAlias |-> TRUE ] >>,
                       enums |-> << [ name |-> <<"C", "o", "l">>,
                                      members |-> << [ name |-> <<"R">>, value |-> <<"r">>,
                                                       readable |-> TRUE ] >> ] >> ]
              nsC == [ name |-> NsC, interfaces |-> <<employee>>,
                       typeAliases |-> <<>>, enums |-> <<>> ]
          IN /\ emSource = [ interfaces |-> <<>>,
                             namespaces |-> IF home = NsA THEN <<nsA, nsB>>
                                            ELSE <<nsA, nsB, nsC>> ]
             /\ emCson = (FqPerson :> PlainDefinition({Id}))
                         @@ (FqNamed :> PlainDefinition({Id, Name}))
                         @@ (Join(<<home, Employee>>, <<".">>) :>
                                [ singular |-> annotation, plural |-> Undefined,
                                  elements |-> elements ])

\* emitJSCompliantFiles: source.getNamespaces().forEach(ns => writeNamespace(...));
\* writeNamespace awaits nothing, so the namespaces are written one after the other
WriteNamespace ==
    /\ emPc = "emitting"
    /\ emWritten < Len(emSource.namespaces)
    /\ emFiles' = Append(emFiles,
                         writeNamespace(emSource.namespaces[emWritten + 1], Output,
                                        emSource, emCson))
    /\ emSource' = [ emSource EXCEPT !.namespaces[emWritten + 1].interfaces =
                                          SourceAfterStubs(@) ]
    /\ emWritten' = emWritten + 1
    /\ UNCHANGED <<emPc, emCson, exceptEmit>>

\* all namespaces have been handed to writeNamespace
EmitReturn ==
    /\ emPc = "emitting"
    /\ emWritten = Len(emSource.namespaces)
    /\ emPc' = "done"
    /\ UNCHANGED <<emSource, emCson, emWritten, emFiles, exceptEmit>>

EmitInit == EmitStart /\ OthersIdle("emit")

EmitNext == WriteNamespace \/ EmitReturn

SpecEmit == EmitInit /\ [][EmitNext]_vars

(***************************************************************************)
(* jsemitter.ts: singular4, plural4, called with a name (a string) and     *)
(* without stripping                                                       *)
(***************************************************************************)
Uppers == << "A", "B", "C", "D", "E", "F", "G", "H", "I", "J", "K", "L", "M",
             "N", "O", "P", "Q", "R", "S", "T", "U", "V", "W", "X", "Y", "Z" >>

Lowers == << "a", "b", "c", "d", "e", "f", "g", "h", "i", "j", "k", "l", "m",
             "n", "o", "p", "q", "r", "s", "t", "u", "v", "w", "x", "y", "z" >>

\* c.toLowerCase() of one character
LowerChar(c) ==
    IF \E k \in 1..Len(Uppers) : Uppers[k] = c
    THEN Lowers[CHOOSE k \in 1..Len(Uppers) : Uppers[k] = c]
    ELSE c

\* what the i flag of a regular expression compares
LowerCase(s) == [ k \in 1..Len(s) |-> LowerChar(s[k]) ]

\* s has sub somewhere: an unanchored pattern
Contains(s, sub) == IndexOfFrom(s, sub, 1) # 0

\* s ends with sub: a pattern anchored by $
EndsWith(s, sub) ==
    Len(s) >= Len(sub) /\ SubSeq(s, Len(s) - Len(sub) + 1, Len(s)) = sub

\* n.slice(0, -k)
DropRight(n, k) == SubSeq(n, 1, Len(n) - k)

Vowels == {"a", "e", "i", "o", "u"}

\* /.*[^aeiou]SUFFIX$/ : the suffix, preceded by a character that is no vowel
EndsWithAfterNonVowel(n, suffix) ==
    /\ EndsWith(n, suffix)
    /\ Len(n) > Len(suffix)
    /\ n[Len(n) - Len(suffix)] \notin Vowels

\* /.*species|news$/i : "species" anywhere, or "news" at the end
SingularException(n) ==
    \/ Contains(LowerCase(n), <<"s", "p", "e", "c", "i", "e", "s">>)
    \/ EndsWith(LowerCase(n), <<"n", "e", "w", "s">>)

singular4(n) ==
    IF SingularException(n) THEN n
    ELSE IF EndsWith(n, <<"e", "s", "s">>) THEN n
    ELSE IF EndsWith(n, <<"e", "e", "s">>) THEN DropRight(n, 1)
    ELSE IF EndsWith(n, <<"s", "e", "s">>) \/ EndsWith(n, <<"z", "e", "s">>)
         THEN DropRight(n, 2)
    ELSE IF EndsWithAfterNonVowel(n, <<"i", "e", "s">>)
         THEN DropRight(n, 3) \o <<"y">>
    ELSE IF EndsWith(n, <<"s">>) THEN DropRight(n, 1)
    ELSE n

\* /.*analysis|status|species|news$/i : "analysis", "status" or "species"
\* anywhere, or "news" at the end
PluralException(n) ==
    \/ Contains(LowerCase(n), <<"a", "n", "a", "l", "y", "s", "i", "s">>)
    \/ Contains(LowerCase(n), <<"s", "t", "a", "t", "u", "s">>)
    \/ Contains(LowerCase(n), <<"s", "p", "e", "c", "i", "e", "s">>)
    \/ EndsWith(LowerCase(n), <<"n", "e", "w", "s">>)

plural4(n) ==
    IF PluralException(n) THEN n
    ELSE IF EndsWithAfterNonVowel(n, <<"y">>) THEN DropRight(n, 1) \o <<"i", "e", "s">>
    ELSE IF \E suffix \in { <<"s">>, <<"x">>, <<"z">>, <<"c", "h">>, <<"s", "h">> } :
                EndsWith(n, suffix)
         THEN n \o <<"e", "s">>
    ELSE n \o <<"s">>

(***************************************************************************)
(* Inflection scenario: singular4 or plural4 applied to one name           *)
(***************************************************************************)
Species  == <<"S", "p", "e", "c", "i", "e", "s">>
News     == <<"n", "e", "w", "s">>
Status   == <<"S", "t", "a", "t", "u", "s">>
Analysis == <<"a", "n", "a", "l", "y", "s", "i", "s">>

StatusCode    == Status \o <<"C", "o", "d", "e">>
SpeciesGroups == Species \o <<"G", "r", "o", "u", "p", "s">>
Employees     == Employee \o <<"s">>
Deliveries    == <<"D", "e", "l", "i", "v", "e", "r", "i", "e", "s">>

ExampleNames ==
    { StatusCode, SpeciesGroups, Employees, Deliveries, Address, Category, Book }

Stems == { <<>>, Species, News, Status, Analysis }

TailChars == {"s", "e", "i", "y", "z", "x", "c", "h", "b"}

\* the example names, and every stem followed by a short tail
InflectNames ==
    (ExampleNames \cup { stem \o tail : stem \in Stems,
                                        tail \in SeqsUpTo(TailChars, MaxTailLen) })
        \ { <<>> }

InflectStart ==
    /\ callPc = "called"
    /\ callFn \in {"singular4", "plural4"}
    /\ \E n \in InflectNames : callArgs = <<n>>
    /\ callResult = <<>>

Singular4 ==
    /\ callPc = "called" /\ callFn = "singular4"
    /\ callResult' = singular4(callArgs[1])
    /\ callPc' = "returned"
    /\ UNCHANGED <<callFn, callArgs, exceptCall>>

Plural4 ==
    /\ callPc = "called" /\ callFn = "plural4"
    /\ callResult' = plural4(callArgs[1])
    /\ callPc' = "returned"
    /\ UNCHANGED <<callFn, callArgs, exceptCall>>

InflectInit == InflectStart /\ OthersIdle("call")

InflectNext == Singular4 \/ Plural4

SpecInflect == InflectInit /\ [][InflectNext]_vars

(***************************************************************************)
(* types/namespace.ts: Namespace constructor (extractTypes), generateCode  *)
(*                                                                         *)
(* The definitions map is the sequence of its values in insertion order,   *)
(* the key of the k-th definition is "D" followed by k. A value is         *)
(* undefined or a                                                          *)
(* definition tagged with its kind together with what its toType() makes   *)
(* of it: whether the type alias has a declaration, whether the enum has   *)
(* members, whether the entity brings an enum of its own and bound         *)
(* actions, whether the action/function has a parameter interface and a    *)
(* return type alias. A declaration added to the source is [decl, of],     *)
(* the kind of declaration and the key of the definition it belongs to.    *)
(***************************************************************************)
Digits == <<"1", "2", "3", "4", "5", "6", "7", "8", "9">>

\* the key of the k-th entry of a definitions map
KeyOf(k) == <<"D", Digits[k]>>

isType(value) == value.kind = "type"

isEntity(value) == value.kind = "entity"

isEnum(value) == value.kind = "enum"

isActionFunction(value) == value.kind = "actionFunction"

NoLists == [ typeAliases |-> <<>>, entities |-> <<>>, enums |-> <<>>,
             actionFunctions |-> <<>> ]

\* one pass of the loop of extractTypes, for the definition of key k
ExtractType(lists, k, value) ==
    IF value = Undefined THEN lists
    ELSE IF isType(value[1])
         THEN [ lists EXCEPT !.typeAliases = Append(@, [ key |-> KeyOf(k), def |-> value[1] ]) ]
    ELSE IF isEntity(value[1])
         THEN [ lists EXCEPT !.entities = Append(@, [ key |-> KeyOf(k), def |-> value[1] ]) ]
    ELSE IF isEnum(value[1])
         THEN [ lists EXCEPT !.enums = Append(@, [ key |-> KeyOf(k), def |-> value[1] ]) ]
    ELSE IF isActionFunction(value[1])
         THEN [ lists EXCEPT !.actionFunctions = Append(@, [ key |-> KeyOf(k), def |-> value[1] ]) ]
    ELSE lists

RECURSIVE ExtractFrom(_, _, _)
ExtractFrom(definitions, k, lists) ==
    IF k > Len(definitions) THEN lists
    ELSE ExtractFrom(definitions, k + 1, ExtractType(lists, k, definitions[k]))

extractTypesWithoutEnums(definitions) ==
    [ ExtractFrom(definitions, 1, NoLists) EXCEPT !.enums = <<>> ]

\* extractTypes(): the four lists of the namespace
extractTypes(definitions) == ExtractFrom(definitions, 1, NoLists)

Declaration(decl, k) == [ decl |-> decl, of |-> k ]

\* addTypeAliasDeclarations
addTypeAliasDeclarations(typeAliases) ==
    [ j \in 1..Len(SelectSeq(typeAliases, LAMBDA t : t.def.declared)) |->
        Declaration("typeAlias", SelectSeq(typeAliases, LAMBDA t : t.def.declared)[j].key) ]

\* addEnumDeclarations
addEnumDeclarations(enums) ==
    [ j \in 1..Len(SelectSeq(enums, LAMBDA e : e.def.members)) |->
        Declaration("enum", SelectSeq(enums, LAMBDA e : e.def.members)[j].key) ]

\* addActionFuncDeclarations
addActionFuncDeclarations(actionFunctions) ==
    Flatten([ j \in 1..Len(actionFunctions) |->
        <<Declaration("enum", actionFunctions[j].key)>>
        \o (IF actionFunctions[j].def.interface
            THEN <<Declaration("interface", actionFunctions[j].key)>> ELSE <<>>)
        \o (IF actionFunctions[j].def.typeAlias
            THEN <<Declaration("typeAlias", actionFunctions[j].key)>> ELSE <<>>) ])

\* what addEntityDeclarations adds to the source: per entity its enums, its
\* interface unless the target is JavaScript, the namespace of its actions;
\* then, for JavaScript, the rolled-out classes
EntityDeclarationsAdded(entities, targetJavascript) ==
    Flatten([ j \in 1..Len(entities) |->
        (IF entities[j].def.enums
         THEN <<Declaration("enum", entities[j].key)>> ELSE <<>>)
        \o (IF targetJavascript THEN <<>>
            ELSE <<Declaration("interface", entities[j].key)>>)
        \o (IF entities[j].def.actions
            THEN <<Declaration("namespace", entities[j].key)>> ELSE <<>>) ])
    \o (IF targetJavascript
        THEN LET classes == addEntityDeclarations(
                              [ j \in 1..Len(entities) |->
                                  [ name |-> entities[j].key, properties |-> <<>>,
                                    extends |-> <<>> ] ])
             IN [ j \in 1..Len(classes) |-> Declaration("class", classes[j].name) ]
        ELSE <<>>)

EntityEnum          == <<"E", "n", "t", "i", "t", "y">>
SanitizedEntityEnum == <<"S", "a", "n", "i", "t", "i", "z", "e", "d">> \o EntityEnum

generateCodeEntitiesFirst(lists, targetJavascript) ==
    EntityDeclarationsAdded(lists.entities, targetJavascript)
    \o addTypeAliasDeclarations(lists.typeAliases)
    \o addEnumDeclarations(lists.enums)
    \o addActionFuncDeclarations(lists.actionFunctions)
    \o << Declaration("enum", EntityEnum), Declaration("enum", SanitizedEntityEnum) >>

\* generateCode: the declarations added to the source, in order
generateCode(lists, targetJavascript) ==
    addTypeAliasDeclarations(lists.typeAliases)
    \o addEnumDeclarations(lists.enums)
    \o EntityDeclarationsAdded(lists.entities, targetJavascript)
    \o addActionFuncDeclarations(lists.actionFunctions)
    \o << Declaration("enum", EntityEnum), Declaration("enum", SanitizedEntityEnum) >>

(***************************************************************************)
(* Namespace scenario: a Namespace is constructed from a definitions map   *)
(* and generates its code                                                  *)
(***************************************************************************)
DefinitionValues ==
    { Undefined }
    \cup { Some([ kind |-> "type", declared |-> d ]) : d \in BOOLEAN }
    \cup { Some([ kind |-> "enum", members |-> m ]) : m \in BOOLEAN }
    \cup { Some([ kind |-> "entity", enums |-> e, actions |-> e ]) : e \in BOOLEAN }
    \cup { Some([ kind |-> "actionFunction", interface |-> TRUE, typeAlias |-> TRUE ]) }

NamespaceStart ==
    /\ nsPc = "new"
    /\ nsDefinitions \in SeqsUpTo(DefinitionValues, MaxDefinitions)
    /\ nsTargetJavascript \in BOOLEAN
    /\ nsLists = NoLists
    /\ nsSource = <<>>

\* new Namespace(definitions, "", name, targetJavascript)
NewNamespace ==
    /\ nsPc = "new"
    /\ nsLists' = extractTypes(nsDefinitions)
    /\ nsPc' = "constructed"
    /\ UNCHANGED <<nsDefinitions, nsTargetJavascript, nsSource, exceptNamespace>>

\* namespace.generateCode(source, otherEntities)
GenerateCode ==
    /\ nsPc = "constructed"
    /\ nsSource' = generateCode(nsLists, nsTargetJavascript)
    /\ nsPc' = "generated"
    /\ UNCHANGED <<nsDefinitions, nsTargetJavascript, nsLists, exceptNamespace>>

NamespaceInit == NamespaceStart /\ OthersIdle("namespace")

NamespaceNext == NewNamespace \/ GenerateCode

SpecNamespace == NamespaceInit /\ [][NamespaceNext]_vars

(***************************************************************************)
(* program.ts: JSVisitor, Program.run, Program.generateCode (roll-out),    *)
(*             Program.writeSource                                         *)
(*                                                                         *)
(* The parsed model is taken as generateCode leaves it: the interfaces the *)
(* namespaces added to the source file and the pending classes of every    *)
(* namespace. The disk is the output directory (present or not) and the    *)
(* files in it. A read of a property type that raises is the property's    *)
(* readable flag being FALSE.                                              *)
(***************************************************************************)
OutputFile == "types.ts"

\* options.output + ".json"
JsonFile == "types.ts.json"

\* the status the process ends with: the low eight bits of the exit code
ExitStatus(code) == code % 256

\* one heirloom rolled out into clazz.properties
rolloutProperty(props, h) ==
    LET k == FindByName(props, h.name)
    IN IF k = 0
       THEN Append(props, [ name |-> h.name, type |-> h.type, docs |-> <<"foo">> ])
       ELSE IF ~Contains(props[k].type, h.type)
       THEN [ props EXCEPT ![k].type = @ \o UnionSep \o h.type,
                           ![k].docs = <<"ipsum">> ]
       ELSE props

RECURSIVE rolloutHeirlooms(_, _)
rolloutHeirlooms(props, heirlooms) ==
    IF Len(heirlooms) = 0 THEN props
    ELSE rolloutHeirlooms(rolloutProperty(props, heirlooms[1]), Tail(heirlooms))

\* the pending class ancName names, seen from namespace number i: <<>> when
\* the namespace or the class is not there
rolloutAncestor(ancName, i, namespaces) ==
    LET nsName  == Join(Front(Split(ancName, ".")), <<".">>)
        clsName == Join(LastOnly(Split(ancName, ".")), <<>>)
        a       == IF nsName = <<>> THEN i ELSE FindByName(namespaces, nsName)
    IN IF a = 0 THEN Undefined
       ELSE LET c == FindByName(namespaces[a].pendingClasses, clsName)
            IN IF c = 0 THEN Undefined ELSE Some(namespaces[a].pendingClasses[c])

RECURSIVE rolloutAncestors(_, _, _, _)
rolloutAncestors(props, ancNames, i, namespaces) ==
    IF Len(ancNames) = 0 THEN props
    ELSE LET ancestor == rolloutAncestor(ancNames[1], i, namespaces)
         IN rolloutAncestors(IF ancestor = Undefined THEN props
                             ELSE rolloutHeirlooms(props, ancestor[1].properties),
                             Tail(ancNames), i, namespaces)

RECURSIVE rollout(_, _, _)
\* namespaces.forEach(ns => ns.pendingClasses.forEach(clazz => ...)) from class
\* k of namespace i on, every class updated in place
rollout(namespaces, i, k) ==
    IF i > Len(namespaces) THEN namespaces
    ELSE IF k > Len(namespaces[i].pendingClasses) THEN rollout(namespaces, i + 1, 1)
    ELSE LET clazz == namespaces[i].pendingClasses[k]
         IN rollout([ namespaces EXCEPT
                        ![i].pendingClasses[k].properties =
                            rolloutAncestors(@, Split(clazz.extends, ","), i, namespaces),
                        ![i].pendingClasses[k].extends = <<>> ], i, k + 1)

\* the source file after generateCode: the interfaces of the namespaces and
\* the rolled-out pending classes, in the order they were added
GeneratedSource(parsed) ==
    LET rolled == rollout(parsed.namespaces, 1, 1)
    IN [ interfaces |-> parsed.interfaces,
         classes    |-> Flatten([ i \in 1..Len(rolled) |-> rolled[i].pendingClasses ]) ]

\* p.getType().getText() raises for some property of the interface
TypeReadRaises(i) == \E k \in 1..Len(i.properties) : ~i.properties[k].readable

\* the number of interfaces JSVisitor converts before a type read raises
ConvertedBeforeRaise(interfaces) ==
    IF \E k \in 1..Len(interfaces) : TypeReadRaises(interfaces[k])
    THEN (CHOOSE k \in 1..Len(interfaces) :
            /\ TypeReadRaises(interfaces[k])
            /\ \A j \in 1..(k - 1) : ~TypeReadRaises(interfaces[j])) - 1
    ELSE Len(interfaces)

\* closure.addClass({...}) of JSVisitor.interfacesToClasses
VisitorClass(i) ==
    [ name       |-> i.name,
      properties |-> [ k \in 1..Len(i.properties) |->
                        [ name |-> i.properties[k].name,
                          type |-> i.properties[k].type ] ],
      extends    |-> Join(i.extends, <<",">>) ]

\* new JSVisitor().rectify(source) when no type read raises
rectify(source) ==
    [ interfaces |-> <<>>,
      classes    |-> source.classes \o
                     [ k \in 1..Len(source.interfaces) |-> VisitorClass(source.interfaces[k]) ] ]

\* the source file as the raised error leaves it: the classes of the
\* interfaces converted before it, no interface removed
rectifyRaised(source) ==
    [ interfaces |-> source.interfaces,
      classes    |-> source.classes \o
                     [ k \in 1..ConvertedBeforeRaise(source.interfaces) |->
                         VisitorClass(source.interfaces[k]) ] ]

(***************************************************************************)
(* Program.run scenario                                                    *)
(***************************************************************************)
RunOptions == [ json : BOOLEAN, javascript : BOOLEAN ]

\* the output directory is missing, or is there with some of the two files
RunDisks ==
    { [ directory |-> FALSE, files |-> {} ] } \cup
    [ directory : {TRUE}, files : SUBSET {OutputFile, JsonFile} ]

\* what Employee may extend: nothing, Person of its own namespace, a class
\* that is not there, a class of a namespace that is not there
RunExtends == { <<>>, Person, Missing, NsB \o <<".">> \o Person }

StrArray == Str \o <<"[", "]">>

RunProperty(n, t) == [ name |-> n, type |-> t, docs |-> <<>> ]

\* Person declares id as a string or as an array of strings; Employee
\* declares one property, id or name, of one of three types
RunPendingClasses(ext, pt, en, et) ==
    << [ name |-> Person, properties |-> <<RunProperty(Id, pt)>>, extends |-> <<>> ],
       [ name |-> Employee, properties |-> <<RunProperty(en, et)>>, extends |-> ext ] >>

\* the interfaces the namespaces added: none, or Named with readable or
\* unreadable properties
RunInterfaces ==
    { <<>> } \cup
    { << [ name |-> Named, properties |-> ps, extends |-> <<>> ] >> :
        ps \in PropertyLists(MaxOwnProps, {Str}, TRUE)
               \cup PropertyLists(MaxOwnProps, {Str}, FALSE) }

RunStart ==
    /\ runPc = "start"
    /\ runOptions \in RunOptions
    /\ runDisk \in RunDisks
    /\ \E ext \in RunExtends, is \in RunInterfaces,
          pt \in {Str, StrArray}, en \in PropNames, et \in {Str, StrArray, <<"B">>} :
          runParsed = [ interfaces |-> is,
                        namespaces |-> << [ name |-> NsA,
                                            pendingClasses |->
                                                IF runOptions.javascript
                                                THEN RunPendingClasses(ext, pt, en, et)
                                                ELSE <<>> ] >> ]
    /\ runSource = <<>>
    /\ runExit = Undefined

\* run, lines 59-64: load the model; options.json writes it next to the output
LoadCds ==
    /\ runPc = "start"
    /\ IF runOptions.json
       THEN IF runDisk.directory
            THEN /\ runDisk' = [ runDisk EXCEPT !.files = @ \cup {JsonFile} ]
                 /\ runPc' = "loaded"
            ELSE \* fs.writeFileSync raises ENOENT
                 /\ runPc' = "rejected"
                 /\ UNCHANGED runDisk
       ELSE /\ runPc' = "loaded"
            /\ UNCHANGED runDisk
    /\ UNCHANGED <<runOptions, runParsed, runSource, runExit, exceptRun>>

\* run, lines 67-72: parse, remove the output file if it is there
ParseCds ==
    /\ runPc = "loaded"
    /\ runDisk' = [ runDisk EXCEPT !.files = @ \ {OutputFile} ]
    /\ runPc' = "parsed"
    /\ UNCHANGED <<runOptions, runParsed, runSource, runExit, exceptRun>>

\* run, lines 75-83: create the source file and generate the code into it
RunGenerateCode ==
    /\ runPc = "parsed"
    /\ runSource' = GeneratedSource(runParsed)
    /\ runPc' = "generated"
    /\ UNCHANGED <<runOptions, runDisk, runParsed, runExit, exceptRun>>

\* run, line 85: convert the interfaces; a raised type read leaves run
Rectify ==
    /\ runPc = "generated"
    /\ IF ConvertedBeforeRaise(runSource.interfaces) < Len(runSource.interfaces)
       THEN /\ runSource' = rectifyRaised(runSource)
            /\ runPc' = "rejected"
       ELSE /\ runSource' = rectify(runSource)
            /\ runPc' = "rectified"
    /\ UNCHANGED <<runOptions, runDisk, runParsed, runExit, exceptRun>>

\* run, lines 88-93, and writeSource
WriteSource ==
    /\ runPc = "rectified"
    /\ IF runDisk.directory
       THEN /\ runDisk' = [ runDisk EXCEPT !.files = @ \cup {OutputFile} ]
            /\ runPc' = "written"
            /\ UNCHANGED runExit
       ELSE /\ runExit' = Some(ExitStatus(-1))
            /\ runPc' = "exited"
            /\ UNCHANGED runDisk
    /\ UNCHANGED <<runOptions, runParsed, runSource, exceptRun>>

RunInit == RunStart /\ OthersIdle("run")

RunNext == LoadCds \/ ParseCds \/ RunGenerateCode \/ Rectify \/ WriteSource

SpecRun == RunInit /\ [][RunNext]_vars

(***************************************************************************)
(* array.util: takeRight, startCase                                        *)
(***************************************************************************)
\* xs.slice(start): a negative start counts from the end, and -0 is 0
SliceFrom(xs, start) ==
    LET from == IF start < 0
                THEN (IF Len(xs) + start < 0 THEN 0 ELSE Len(xs) + start)
                ELSE (IF start > Len(xs) THEN Len(xs) ELSE start)
    IN SubSeq(xs, from + 1, Len(xs))

\* the earlier takeRight: xs.slice(-n)
takeRightEarlier(xs, n) == SliceFrom(xs, -n)

takeRight(xs, n) == IF n > 0 THEN SliceFrom(xs, -n) ELSE <<>>

\* the character classes [A-Z], [a-z], \d and [-_]
UpperClass == Range(Uppers)

LowerClass == Range(Lowers)

DigitClass == {"0", "1", "2", "3", "4", "5", "6", "7", "8", "9"}

DashClass == {"-", "_"}

\* c.toUpperCase() of one character
UpperChar(c) ==
    IF c \in LowerClass THEN Uppers[CHOOSE k \in 1..Len(Lowers) : Lowers[k] = c] ELSE c

RECURSIVE RunLength(_, _, _)
\* the number of characters from position i on that are in the class: CLASS*
RunLength(s, i, class) ==
    IF i > Len(s) \/ s[i] \notin class THEN 0 ELSE 1 + RunLength(s, i + 1, class)

RECURSIVE ReplaceDashes(_, _)
\* str.replace(/[-_]+/g, " ") from position i on
ReplaceDashes(s, i) ==
    IF i > Len(s) THEN <<>>
    ELSE LET r == RunLength(s, i, DashClass)
         IN IF r > 0 THEN <<" ">> \o ReplaceDashes(s, i + r)
            ELSE <<s[i]>> \o ReplaceDashes(s, i + 1)

\* the length /[A-Z]+(?![a-z])/ matches at position i, 0 for no match: the
\* whole run of capitals, or one less when a lower-case letter follows it
CapitalsLength(s, i) ==
    LET u == RunLength(s, i, UpperClass)
    IN IF u > 0 /\ i + u <= Len(s) /\ s[i + u] \in LowerClass THEN u - 1 ELSE u

\* the length /[A-Z]?[a-z]+/ matches at position i, 0 for no match
CapitalizedLength(s, i) ==
    IF i <= Len(s) /\ s[i] \in UpperClass /\ RunLength(s, i + 1, LowerClass) > 0
    THEN 1 + RunLength(s, i + 1, LowerClass)
    ELSE RunLength(s, i, LowerClass)

\* the length /[A-Z]+(?![a-z])|[A-Z]?[a-z]+|\d+/ matches at position i
WordLength(s, i) ==
    IF CapitalsLength(s, i) > 0 THEN CapitalsLength(s, i)
    ELSE IF CapitalizedLength(s, i) > 0 THEN CapitalizedLength(s, i)
    ELSE RunLength(s, i, DigitClass)

RECURSIVE MatchWords(_, _)
\* s.match(/.../g) ?? [] from position i on
MatchWords(s, i) ==
    IF i > Len(s) THEN <<>>
    ELSE LET w == WordLength(s, i)
         IN IF w > 0 THEN <<SubSeq(s, i, i + w - 1)>> \o MatchWords(s, i + w)
            ELSE MatchWords(s, i + 1)

\* s.charAt(0).toUpperCase() + s.slice(1)
UpperFirst(s) == IF Len(s) = 0 THEN s ELSE <<UpperChar(s[1])>> \o Tail(s)

startCase(str) ==
    LET words    == MatchWords(ReplaceDashes(str, 1), 1)
        trimmed  == [ k \in 1..Len(words) |-> Trim(words[k]) ]
        nonEmpty == SelectSeq(trimmed, LAMBDA w : w # <<>>)
    IN Join([ k \in 1..Len(nonEmpty) |-> UpperFirst(nonEmpty[k]) ], <<" ">>)

(***************************************************************************)
(* array.util scenario: one call of takeRight or of startCase              *)
(***************************************************************************)
ArrayElements == {1, 2}

\* lower-case and upper-case letters, digits, and the three separators
StartCaseChars == {"h", "s", "t", "B", "T", "1", "4", "-", "_", " "}

\* "--foo-bar--", "fooBar" and "__FOO_BAR__"
StartCaseExamples ==
    { <<"-", "-", "f", "o", "o", "-", "b", "a", "r", "-", "-">>,
      <<"f", "o", "o", "B", "a", "r">>,
      <<"_", "_", "F", "O", "O", "_", "B", "A", "R", "_", "_">> }

ArrayUtilStart ==
    /\ callPc = "called"
    /\ \/ /\ callFn = "takeRight"
          /\ \E xs \in SeqsUpTo(ArrayElements, MaxArrayLen),
                n \in (-MaxArrayLen)..(MaxArrayLen + 1) : callArgs = <<xs, n>>
       \/ /\ callFn = "startCase"
          /\ \E str \in SeqsUpTo(StartCaseChars, MaxStringLen) \cup StartCaseExamples :
                callArgs = <<str>>
    /\ callResult = <<>>

TakeRight ==
    /\ callPc = "called" /\ callFn = "takeRight"
    /\ callResult' = takeRight(callArgs[1], callArgs[2])
    /\ callPc' = "returned"
    /\ UNCHANGED <<callFn, callArgs, exceptCall>>

StartCase ==
    /\ callPc = "called" /\ callFn = "startCase"
    /\ callResult' = startCase(callArgs[1])
    /\ callPc' = "returned"
    /\ UNCHANGED <<callFn, callArgs, exceptCall>>

ArrayUtilInit == ArrayUtilStart /\ OthersIdle("call")

ArrayUtilNext == TakeRight \/ StartCase

SpecArrayUtil == ArrayUtilInit /\ [][ArrayUtilNext]_vars

(***************************************************************************)
(* Inheritance chain scenario: Employee extends Person, Person extends     *)
(* Named. namespace.ts rolls out the three entities of one namespace, in   *)
(* any order of the entity list; jsemitter.ts converts the namespace a of  *)
(* Employee, with Person in a and Named in a or in b.                      *)
(***************************************************************************)
\* the orders of a list of n elements
Orders(n) == { p \in [1..n -> 1..n] : \A i, j \in 1..n : i # j => p[i] # p[j] }

Reorder(xs, p) == [ k \in 1..Len(xs) |-> xs[p[k]] ]

ChainStart ==
    /\ flPc = "new"
    /\ flImpl \in {"emitter", "namespace"}
    /\ flClasses = <<>>
    /\ flMerges = 0
    /\ \E np \in PropertyLists(MaxAncestorProps, {Str, <<"A">>}, TRUE) :
       \E pp \in PropertyLists(MaxAncestorProps, {Str}, TRUE) :
       \E ep \in PropertyLists(MaxOwnProps, {Str}, TRUE) :
       \E namedHome \in {NsA, NsB} :
       \E p \in Orders(3) :
          IF flImpl = "namespace"
          THEN /\ flClosure =
                     Reorder(<< [ name |-> Named, extends |-> <<>>, properties |-> np ],
                                [ name |-> Person, extends |-> <<Named>>,
                                  properties |-> pp ],
                                [ name |-> Employee, extends |-> <<Person>>,
                                  properties |-> ep ] >>, p)
               /\ flContext = [ interfaces |-> <<>>, namespaces |-> <<>> ]
          ELSE LET named  == [ name |-> Named, extends |-> <<>>, properties |-> np ]
                   person == [ name |-> Person,
                               extends |-> << namedHome \o <<".">> \o Named >>,
                               properties |-> pp ]
               IN /\ flClosure = << [ name |-> Employee,
                                      extends |-> << NsA \o <<".">> \o Person >>,
                                      properties |-> ep ] >>
                  /\ flContext =
                        [ interfaces |-> <<>>,
                          namespaces |->
                            IF namedHome = NsA
                            THEN << [ name |-> NsA, interfaces |-> <<named, person>> ] >>
                            ELSE << [ name |-> NsA, interfaces |-> <<person>> ],
                                    [ name |-> NsB, interfaces |-> <<named>> ] >> ]

ChainInit == ChainStart /\ OthersIdle("flat")

SpecChain == ChainInit /\ [][FlatNext]_vars

(***************************************************************************)
(* Root scope scenario: the source file may hold an interface Person of    *)
(* its own, next to the Person of namespace a; Employee lives in namespace *)
(* a or in the namespace named by the root sentinel.                       *)
(***************************************************************************)
EmitRootStart ==
    /\ emPc = "emitting"
    /\ emWritten = 0
    /\ emFiles = <<>>
    /\ \E home \in {NsA, ROOT_NAMESPACE_NAME} :
       \E order \in AncestorOrders :
       \E ep \in PropertyLists(MaxOwnProps, OwnTypeTexts, TRUE) :
       \E root \in {<<>>} \cup
                   { << [ name |-> Person, extends |-> <<>>, properties |-> rp ] >> :
                       rp \in PropertyLists(MaxEmitProps, {Str}, TRUE) } :
          LET person   == [ name |-> Person, extends |-> <<>>,
                            properties |-> <<PlainProperty(Id)>> ]
              named    == [ name |-> Named, extends |-> <<>>,
                            properties |-> <<PlainProperty(Id), PlainProperty(Name)>> ]
              employee == [ name |-> Employee,
                            extends |-> Qualified((Person :> NsA) @@ (Named :> NsB), order),
                            properties |-> ep ]
              nsA == [ name |-> NsA,
                       interfaces |-> IF home = NsA THEN <<person, employee>> ELSE <<person>>,
                       typeAliases |-> <<>>, enums |-> <<>> ]
              nsB == [ name |-> NsB, interfaces |-> <<named>>,
                       typeAliases |-> <<>>, enums |-> <<>> ]
              nsR == [ name |-> ROOT_NAMESPACE_NAME, interfaces |-> <<employee>>,
                       typeAliases |-> <<>>, enums |-> <<>> ]
          IN /\ emSource = [ interfaces |-> root,
                             namespaces |-> IF home = NsA THEN <<nsA, nsB>>
                                            ELSE <<nsA, nsB, nsR>> ]
             /\ emCson = (FqPerson :> PlainDefinition({Id}))
                         @@ (FqNamed :> PlainDefinition({Id, Name}))
                         @@ (Join(<<home, Employee>>, <<".">>) :>
                                PlainDefinition({ ep[k].name : k \in 1..Len(ep) }))

EmitRootInit == EmitRootStart /\ OthersIdle("emit")

SpecEmitRoot == EmitRootInit /\ [][EmitNext]_vars

(***************************************************************************)
(* getTypeText scenario: one call on a property signature or a type alias  *)
(* declaration whose type can or cannot be read structurally               *)
(***************************************************************************)
\* "{ a: A }", "{ a: A; b: B }", "() => A", "(a: A) => B" and "A | B"
ObjectType    == <<"{", " ", "a", ":", " ", "A", " ", "}">>
ObjectType2   == <<"{", " ", "a", ":", " ", "A", ";", " ", "b", ":", " ", "B", " ", "}">>
FunctionType  == <<"(", ")", " ", "=", ">", " ", "A">>
FunctionType2 == <<"(", "a", ":", " ", "A", ")", " ", "=", ">", " ", "B">>
UnionType     == <<"A">> \o UnionSep \o <<"B">>

TypeTextChoices ==
    { Str, StrArray, <<"A">>, <<"B">>, UnionType,
      ObjectType, ObjectType2, FunctionType, FunctionType2 }

TypeTextStart ==
    /\ callPc = "called"
    /\ callFn = "getTypeText"
    /\ \E n \in PropNames, t \in TypeTextChoices, r \in BOOLEAN, alias \in BOOLEAN :
          callArgs = << IF alias
                        THEN [ name |-> n, type |-> t, readable |-> r, isTypeAlias |-> TRUE ]
                        ELSE [ name |-> n, type |-> t, readable |-> r ] >>
    /\ callResult = <<>>

GetTypeText ==
    /\ callPc = "called" /\ callFn = "getTypeText"
    /\ callResult' = getTypeText(callArgs[1])
    /\ callPc' = "returned"
    /\ UNCHANGED <<callFn, callArgs, exceptCall>>

TypeTextInit == TypeTextStart /\ OthersIdle("call")

TypeTextNext == GetTypeText

SpecTypeText == TypeTextInit /\ [][TypeTextNext]_vars

(***************************************************************************)
(* Pending saves scenario. SourceFile.save() takes the text of the file    *)
(* when it is called and hands it to the file system; writeNamespace and   *)
(* emitJSCompliantFiles await none of these promises, so the writes        *)
(* complete in any order, each storing the text taken at its call.         *)
(***************************************************************************)
\* the text of index.d.ts at the dTsFile.save() that follows the k-th
\* addInterface: the k-th plural type alias is added after it
DtsSnapshot(dts, k) ==
    [ imports     |-> dts.imports,
      interfaces  |-> SubSeq(dts.addedInterfaces, 1, k),
      classes     |-> <<>>,
      typeAliases |-> SubSeq(dts.typeAliases, 1, k - 1),
      enums       |-> <<>> ]

\* the text of index.d.ts at the last dTsFile.save() of writeNamespace
DtsComplete(dts) ==
    [ imports     |-> dts.imports,
      interfaces  |-> dts.interfaces,
      classes     |-> dts.classes,
      typeAliases |-> dts.typeAliases,
      enums       |-> dts.enums ]

\* the saves writeNamespace starts for one namespace, numbered in call order
SavesOf(file) ==
    LET n == Len(file.dts.addedInterfaces)
    IN { [ path |-> file.dts.path, call |-> k, content |-> DtsSnapshot(file.dts, k) ] :
           k \in 1..n }
       \cup { [ path |-> file.dts.path, call |-> n + 1, content |-> DtsComplete(file.dts) ],
              [ path |-> file.js.path, call |-> n + 2,
                content |-> [ classes |-> file.js.classes, exports |-> file.js.exports ] ] }

SaveStart ==
    /\ svPc = "emitting"
    /\ svStarted = 0
    /\ svPending = {}
    /\ svDisk = << >>
    /\ \E home \in {NsA, NsC} :
       \E order \in AncestorOrders :
          LET person   == [ name |-> Person, extends |-> <<>>,
                            properties |-> <<PlainProperty(Id)>> ]
              named    == [ name |-> Named, extends |-> <<>>,
                            properties |-> <<PlainProperty(Id), PlainProperty(Name)>> ]
              employee == [ name |-> Employee,
                            extends |-> Qualified((Person :> NsA) @@ (Named :> NsB), order),
                            properties |-> <<>> ]
              nsA == [ name |-> NsA,
                       interfaces |-> IF home = NsA THEN <<person, employee>> ELSE <<person>>,
                       typeAliases |-> <<>>, enums |-> <<>> ]
              nsB == [ name |-> NsB, interfaces |-> <<named>>,
                       typeAliases |-> << [ name |-> <<"K", "e", "y">>, type |-> Str,
                                            readable |-> TRUE, isTypeAlias |-> TRUE ] >>,
                       enums |-> << [ name |-> <<"C", "o", "l">>,
                                      members |-> << [ name |-> <<"R">>, value |-> <<"r">>,
                                                       readable |-> TRUE ] >> ] >> ]
              nsC == [ name |-> NsC, interfaces |-> <<employee>>,
                       typeAliases |-> <<>>, enums |-> <<>> ]
          IN /\ svSource = [ interfaces |-> <<>>,
                             namespaces |-> IF home = NsA THEN <<nsA, nsB>>
                                            ELSE <<nsA, nsB, nsC>> ]
             /\ svCson = (FqPerson :> PlainDefinition({Id}))
                         @@ (FqNamed :> PlainDefinition({Id, Name}))
                         @@ (Join(<<home, Employee>>, <<".">>) :> PlainDefinition({}))

\* source.getNamespaces().forEach((ns) => writeNamespace(ns, ...)): one call runs
\* to its end without awaiting, leaving its saves pending
StartNamespace ==
    /\ svPc = "emitting"
    /\ svStarted < Len(svSource.namespaces)
    /\ svPending' = svPending
                      \cup SavesOf(writeNamespace(svSource.namespaces[svStarted + 1],
                                                  Output, svSource, svCson))
    /\ svSource' = [ svSource EXCEPT !.namespaces[svStarted + 1].interfaces =
                                         SourceAfterStubs(@) ]
    /\ svStarted' = svStarted + 1
    /\ UNCHANGED <<svPc, svCson, svDisk, exceptSave>>

\* emitJSCompliantFiles returns once every namespace was handed to writeNamespace
SaveReturn ==
    /\ svPc = "emitting"
    /\ svStarted = Len(svSource.namespaces)
    /\ svPc' = "returned"
    /\ UNCHANGED <<svSource, svCson, svStarted, svPending, svDisk, exceptSave>>

\* the file system completes one of the pending writes
CompleteSave ==
    /\ \E s \in svPending :
          /\ svDisk' = (s.path :> s.content) @@ svDisk
          /\ svPending' = svPending \ {s}
    /\ UNCHANGED <<svPc, svSource, svCson, svStarted, exceptSave>>

SaveInit == SaveStart /\ OthersIdle("save")

SaveNext == StartNamespace \/ SaveReturn \/ CompleteSave

SpecSave == SaveInit /\ [][SaveNext]_vars

(***************************************************************************)
(* C2: for every namespace name n, with the unnamed root and the root      *)
(* placeholder "$ROOT$", the relative path from n to its own directory     *)
(* form is the empty string, and isLocalNamespace is true.                 *)
(***************************************************************************)
C2_SelfRelativePathEmpty ==
    pathPc = "related" => (relSelf = <<>> /\ localSelf)

C2_Witness ==
    /\ pathPc = "related"
    /\ path1 = <<"a", ".", "b">>
    /\ localSelf

(***************************************************************************)
(* C3: two distinct namespace paths (identifiers may contain underscores)  *)
(* never get the same alias.                                               *)
(***************************************************************************)
C3_AliasUnique ==
    (pathPc = "aliased" /\ path1 \in NamespacePaths /\ path2 \in NamespacePaths
        /\ path1 # path2) => alias1 # alias2

(***************************************************************************)
(* C4: for an entity whose definition carries @singular and @plural,       *)
(* getNames returns exactly [the @singular value, the @plural value].      *)
(***************************************************************************)
C4_AnnotatedNamesVerbatim ==
    (namePc = "named" /\ NmAnnotated) =>
        nmOut = << nmCson[NmFq].singular[1], nmCson[NmFq].plural[1] >>

(***************************************************************************)
(* C10: without annotations the names follow the suffix heuristics:        *)
(* "Category" gives ("Category", "Categories") and "Address" gives         *)
(* ("Address", "Addresses").                                               *)
(***************************************************************************)
C10_DerivedNames ==
    (namePc = "named" /\ NmPlain) =>
        /\ nmEntity = Category => nmOut = <<Category, Categories>>
        /\ nmEntity = Address => nmOut = <<Address, Addresses>>

(***************************************************************************)
(* C1: flattening is idempotent: once the ancestors of a class have been   *)
(* merged into it, merging the same ancestors in the same order again      *)
(* leaves its property list (names, order, type strings) as it was.        *)
(***************************************************************************)
C1_FlattenIdempotent ==
    [][ (flPc = "flattened" /\ flPc' = "flattened")
            => EmployeeClass'.properties = EmployeeClass.properties ]_vars

\* the declared type of property n in a property list, Undefined if absent
DeclaredType(props, n) ==
    IF FindByName(props, n) = 0 THEN Undefined
    ELSE Some(props[FindByName(props, n)].type)

\* the properties of the k-th ancestor Employee lists
AncestorSignatures(k) == AncestorProperties(flContext, EmployeeInterface.extends[k])

(***************************************************************************)
(* C5: union branches follow the ancestor declaration order: a class       *)
(* without own property x, flattened over a first ancestor declaring x: A  *)
(* and a second one declaring x: B, gets x: "A | B" (and "B | A" when the  *)
(* ancestors are listed the other way round).                              *)
(***************************************************************************)
C5_UnionOrderFollowsAncestors ==
    (flImpl = "emitter" /\ flPc = "flattened" /\ flMerges = 1
        /\ Len(EmployeeInterface.extends) = 2) =>
        \A x \in PropNames :
            LET own    == DeclaredType(EmployeeInterface.properties, x)
                first  == DeclaredType(AncestorSignatures(1), x)
                second == DeclaredType(AncestorSignatures(2), x)
            IN (own = Undefined /\ first # Undefined /\ second # Undefined
                    /\ first # second) =>
               DeclaredType(EmployeeClass.properties, x)
                   = Some(first[1] \o UnionSep \o second[1])

C5_Witness ==
    /\ flImpl = "emitter" /\ flPc = "flattened" /\ flMerges = 1
    /\ EmployeeInterface.extends = << <<"b", ".">> \o Named, <<"a", ".">> \o Person >>
    /\ EmployeeInterface.properties = <<>>
    /\ DeclaredType(AncestorSignatures(1), Id) = Some(<<"B">>)
    /\ DeclaredType(AncestorSignatures(2), Id) = Some(<<"A">>)
    /\ DeclaredType(EmployeeClass.properties, Id) = Some(<<"B", " ", "|", " ", "A">>)

\* Employee without own properties, a.Person { id: string },
\* b.Named { id: string, name: string }
EmployeeScenario ==
    /\ flImpl = "emitter"
    /\ EmployeeInterface.properties = <<>>
    /\ EmployeeInterface.extends = << <<"a", ".">> \o Person, <<"b", ".">> \o Named >>
    /\ ContextInterfaces(flContext, NsA) =
          << [ name |-> Person, extends |-> <<>>,
               properties |-> << [ name |-> Id, type |-> Str, readable |-> TRUE ] >> ] >>
    /\ ContextInterfaces(flContext, NsB) =
          << [ name |-> Named, extends |-> <<>>,
               properties |-> << [ name |-> Id, type |-> Str, readable |-> FALSE ],
                                 [ name |-> Name, type |-> Str, readable |-> FALSE ] >> ] >>

(***************************************************************************)
(* C6: Employee, declaring nothing itself, flattened over a.Person         *)
(* (id: string) and b.Named (id: string, name: string) is a class with     *)
(* exactly the properties id: string and name: string, in that order, and  *)
(* an empty extends list.                                                  *)
(***************************************************************************)
C6_EmployeeFlattened ==
    (EmployeeScenario /\ flPc = "flattened" /\ flMerges = 1) =>
        EmployeeClass = [ name       |-> Employee,
                          properties |-> << [ name |-> Id, type |-> Str ],
                                            [ name |-> Name, type |-> Str ] >>,
                          extends    |-> <<>> ]

C6_Witness ==
    /\ EmployeeScenario /\ flPc = "flattened" /\ flMerges = 1
    /\ Len(EmployeeClass.properties) = 2
    /\ EmployeeClass.extends = <<>>

\* the element the CSN holds for property p of interface i of namespace nsName
PropertyElement(nsName, i, p) ==
    ElementOf(emCson, Join(<<nsName, i.name>>, <<".">>), p.name)

ReservedName(p) == p.name \in {Texts, Localized}

\* p is an association: its element names a target
HasTarget(nsName, i, p) ==
    /\ PropertyElement(nsName, i, p) # Undefined
    /\ Truthy(PropertyElement(nsName, i, p)[1].target)

TargetOf(nsName, i, p) == PropertyElement(nsName, i, p)[1].target[1]

\* p is an association to a type that is not part of the definition model
TargetMissing(nsName, i, p) ==
    HasTarget(nsName, i, p) /\ TargetOf(nsName, i, p) \notin DOMAIN emCson

\* the namespace part of a fully-qualified name: all before its last dot
NamespacePart(fq) ==
    IF \E k \in 1..Len(fq) : fq[k] = "."
    THEN SubSeq(fq, 1, (CHOOSE k \in 1..Len(fq) :
                            fq[k] = "." /\ \A j \in (k + 1)..Len(fq) : fq[j] # ".") - 1)
    ELSE <<>>

\* the namespaces interface i refers to, in discovery order: ancestors, then
\* the association targets of its properties
Discovered(nsName, i) ==
    [ k \in 1..Len(i.extends) |-> NamespacePart(i.extends[k]) ]
    \o Flatten([ k \in 1..Len(i.properties) |->
                   IF HasTarget(nsName, i, i.properties[k]) /\ ~ReservedName(i.properties[k])
                   THEN <<NamespacePart(TargetOf(nsName, i, i.properties[k]))>>
                   ELSE <<>> ])

DiscoveredBy(ns) ==
    Flatten([ k \in 1..Len(ns.interfaces) |-> Discovered(ns.name, ns.interfaces[k]) ])

\* the k-th smallest element of a finite set of numbers
RECURSIVE Nth(_, _)
Nth(S, k) ==
    LET m == CHOOSE x \in S : \A y \in S : x <= y
    IN IF k = 1 THEN m ELSE Nth(S \ {m}, k - 1)

\* the external namespaces ns refers to, each once, in order of first discovery
ExternalNamespaces(ns) ==
    LET d    == DiscoveredBy(ns)
        keep == { i \in 1..Len(d) : d[i] # ns.name /\ \A j \in 1..(i - 1) : d[j] # d[i] }
    IN [ k \in 1..Cardinality(keep) |-> d[Nth(keep, k)] ]

\* the import of namespace n into the index.d.ts of namespace nsName
ImportOf(n, nsName) ==
    [ moduleSpecifier |-> PathRelative(RelOf(nsName), ReplaceAll(n, ".", "/")),
      namespaceImport |-> <<"_">> \o ReplaceAll(n, ".", "_") ]

(***************************************************************************)
(* C7: the import list of a namespace holds every external namespace its   *)
(* interfaces refer to exactly once, in the order of first discovery       *)
(* (interfaces in order; per interface its ancestors, then its             *)
(* properties), and never the namespace itself.                            *)
(***************************************************************************)
C7_ImportsOncePerExternalNamespace ==
    \A k \in 1..Len(emFiles) :
        LET ns  == emSource.namespaces[k]
            ext == ExternalNamespaces(ns)
        IN /\ emFiles[k].dts.imports = [ j \in 1..Len(ext) |-> ImportOf(ext[j], ns.name) ]
           /\ \A j \in 1..Len(emFiles[k].dts.imports) :
                /\ emFiles[k].dts.imports[j].moduleSpecifier # <<>>
                /\ emFiles[k].dts.imports[j].namespaceImport # ImportOf(ns.name, ns.name).namespaceImport
                /\ \A l \in 1..Len(emFiles[k].dts.imports) :
                      l # j => emFiles[k].dts.imports[l] # emFiles[k].dts.imports[j]

\* Employee lives in c, extends a.Person and b.Named and refers to a.Person
\* once more by a property; Employee of a extends a.Person and b.Named
C7_Witness ==
    /\ emPc = "done"
    /\ Len(emFiles) = 3
    /\ emSource.namespaces[3].interfaces[1].extends = <<FqPerson, FqNamed>>
    /\ \E k \in 1..Len(emSource.namespaces[3].interfaces[1].properties) :
          LET p == emSource.namespaces[3].interfaces[1].properties[k]
          IN /\ HasTarget(NsC, emSource.namespaces[3].interfaces[1], p)
             /\ ~ReservedName(p)
             /\ TargetOf(NsC, emSource.namespaces[3].interfaces[1], p) = FqPerson
    /\ emFiles[3].dts.imports =
          << [ moduleSpecifier |-> <<".", ".", "/", "a">>, namespaceImport |-> <<"_", "a">> ],
             [ moduleSpecifier |-> <<".", ".", "/", "b">>, namespaceImport |-> <<"_", "b">> ] >>

AnyType == <<"a", "n", "y">>

\* the type writeNamespace computes for property n of the entity it adds to
\* index.d.ts of file f under the name c
EmittedType(f, c, n) ==
    LET k == FindByName(f.dts.addedInterfaces, c)
    IN f.dts.addedInterfaces[k].properties[
           FindByName(f.dts.addedInterfaces[k].properties, n)].type

(***************************************************************************)
(* C8: a property whose association target is absent from the definition  *)
(* model is emitted with the opaque placeholder (its own type text or      *)
(* "any"), not with a reference to the missing type.                       *)
(***************************************************************************)
C8_MissingTargetIsOpaque ==
    \A k \in 1..Len(emFiles) :
        LET ns == emSource.namespaces[k] IN
        \A a \in 1..Len(ns.interfaces) :
        \A b \in 1..Len(ns.interfaces[a].properties) :
            LET i == ns.interfaces[a]
                p == i.properties[b]
            IN TargetMissing(ns.name, i, p) =>
                  EmittedType(emFiles[k], getNames(i.name, emCson, ns.name)[1], p.name)
                      \in {getTypeText(p), AnyType}

(***************************************************************************)
(* C9: a property takes no part in import resolution whenever its          *)
(* association target does not exist in the definition model or its name   *)
(* is "texts" or "localized"; every other property with an association     *)
(* target contributes its target's namespace.                              *)
(***************************************************************************)
C9_ExcludedFromImportResolution ==
    \A k \in 1..Len(emFiles) :
        LET ns == emSource.namespaces[k] IN
        \A a \in 1..Len(ns.interfaces) :
        \A b \in 1..Len(ns.interfaces[a].properties) :
            LET i == ns.interfaces[a]
                p == i.properties[b]
                q == resolve(Join(<<ns.name, i.name>>, <<".">>), p.name, emCson)
                others == [ ns EXCEPT !.interfaces[a].properties =
                                SelectSeq(@, LAMBDA o : o.name # p.name) ]
            IN IF ReservedName(p) \/ ~HasTarget(ns.name, i, p) \/ TargetMissing(ns.name, i, p)
               THEN /\ q = Undefined
                    /\ emFiles[k].dts.imports =
                          [ j \in 1..Len(ExternalNamespaces(others)) |->
                              ImportOf(ExternalNamespaces(others)[j], ns.name) ]
               ELSE /\ q # Undefined
                    /\ getNamespace(q[1]) = NamespacePart(TargetOf(ns.name, i, p))
                    /\ (getNamespace(q[1]) # ns.name =>
                          \E j \in 1..Len(emFiles[k].dts.imports) :
                              emFiles[k].dts.imports[j] = ImportOf(getNamespace(q[1]), ns.name))

\* the name ends in an exception word of the singular rule
EndsInSingularException(n) ==
    \/ EndsWith(LowerCase(n), LowerCase(Species))
    \/ EndsWith(LowerCase(n), News)
    \/ EndsWith(n, <<"e", "s", "s">>)

\* the name ends in an exception word of the plural rule
EndsInPluralException(n) ==
    \E w \in {Analysis, Status, Species, News} :
        EndsWith(LowerCase(n), LowerCase(w))

\* the first matching singular rule, in priority order
SingularRule(n) ==
    IF EndsWith(n, <<"e", "e", "s">>) THEN DropRight(n, 1)
    ELSE IF EndsWith(n, <<"s", "e", "s">>) \/ EndsWith(n, <<"z", "e", "s">>)
         THEN DropRight(n, 2)
    ELSE IF EndsWithAfterNonVowel(n, <<"i", "e", "s">>) THEN DropRight(n, 3) \o <<"y">>
    ELSE IF EndsWith(n, <<"s">>) THEN DropRight(n, 1)
    ELSE n

\* the first matching plural rule, in priority order
PluralRule(n) ==
    IF EndsWithAfterNonVowel(n, <<"y">>) THEN DropRight(n, 1) \o <<"i", "e", "s">>
    ELSE IF \E suffix \in { <<"s">>, <<"x">>, <<"z">>, <<"c", "h">>, <<"s", "h">> } :
                EndsWith(n, suffix)
         THEN n \o <<"e", "s">>
    ELSE n \o <<"s">>

(***************************************************************************)
(* C11: singular4 and plural4 leave a name unchanged only when it ENDS in  *)
(* an exception word; every other name, one that merely contains an        *)
(* exception word before its end included ("StatusCode", "SpeciesGroups"), *)
(* is transformed by the first matching rule.                              *)
(***************************************************************************)
C11_ExceptionsOnlyAtEnd ==
    callPc = "returned" =>
        /\ callFn = "singular4" =>
              callResult = IF EndsInSingularException(callArgs[1]) THEN callArgs[1]
                           ELSE SingularRule(callArgs[1])
        /\ callFn = "plural4" =>
              callResult = IF EndsInPluralException(callArgs[1]) THEN callArgs[1]
                           ELSE PluralRule(callArgs[1])

(***************************************************************************)
(* C12: after writeNamespace the index.d.ts of a namespace still holds,    *)
(* for every entity, an interface declaration with one extends entry per   *)
(* declared ancestor.                                                      *)
(***************************************************************************)
C12_InterfacesKeptUnflattened ==
    \A k \in 1..Len(emFiles) :
        LET ns == emSource.namespaces[k] IN
        \A a \in 1..Len(ns.interfaces) :
            \E b \in 1..Len(emFiles[k].dts.interfaces) :
                /\ emFiles[k].dts.interfaces[b].name
                      = getNames(ns.interfaces[a].name, emCson, ns.name)[1]
                /\ Len(emFiles[k].dts.interfaces[b].extends) = Len(ns.interfaces[a].extends)

\* the association of property p is to-many: its cardinality has max "*"
IsToMany(nsName, i, p) ==
    /\ PropertyElement(nsName, i, p)[1].cardinality # Undefined
    /\ PropertyElement(nsName, i, p)[1].cardinality[1].max = "*"

(***************************************************************************)
(* C13: the type emitted for a resolved association property ends in "[]"  *)
(* exactly when the association is to-many; a to-one association, one with *)
(* an explicit cardinality of max 1 included, has no such suffix.          *)
(***************************************************************************)
C13_CollectionIffToMany ==
    \A k \in 1..Len(emFiles) :
        LET ns == emSource.namespaces[k] IN
        \A a \in 1..Len(ns.interfaces) :
        \A b \in 1..Len(ns.interfaces[a].properties) :
            LET i == ns.interfaces[a]
                p == i.properties[b]
                t == EmittedType(emFiles[k], getNames(i.name, emCson, ns.name)[1], p.name)
            IN (HasTarget(ns.name, i, p) /\ ~ReservedName(p)) =>
                  (EndsWith(t, ArraySuffix) <=> IsToMany(ns.name, i, p))

\* the keys held by a list of a namespace
KeysOf(list) == [ j \in 1..Len(list) |-> list[j].key ]

\* how often key occurs in a sequence of keys
Occurrences(keys, key) == Cardinality({ j \in 1..Len(keys) : keys[j] = key })

\* the list a definition of a kind belongs to
ListOfKind(lists, kind) ==
    CASE kind = "type" -> lists.typeAliases
      [] kind = "entity" -> lists.entities
      [] kind = "enum" -> lists.enums
      [] kind = "actionFunction" -> lists.actionFunctions

(***************************************************************************)
(* C15: constructing a Namespace puts every definition that is not         *)
(* undefined into exactly one of the four lists, the one of its kind; no   *)
(* definition is in two lists, none is dropped, and undefined entries are  *)
(* skipped.                                                                *)
(***************************************************************************)
C15_ClassifiedExactlyOnce ==
    nsPc \in {"constructed", "generated"} =>
        LET all == KeysOf(nsLists.typeAliases) \o KeysOf(nsLists.entities)
                   \o KeysOf(nsLists.enums) \o KeysOf(nsLists.actionFunctions)
        IN \A k \in 1..Len(nsDefinitions) :
              IF nsDefinitions[k] = Undefined
              THEN Occurrences(all, KeyOf(k)) = 0
              ELSE /\ Occurrences(all, KeyOf(k)) = 1
                   /\ Occurrences(KeysOf(ListOfKind(nsLists, nsDefinitions[k][1].kind)),
                                  KeyOf(k)) = 1

C15_Witness ==
    /\ nsPc = "constructed"
    /\ Len(nsDefinitions) = 4
    /\ nsDefinitions[1] = Undefined
    /\ Len(nsLists.enums) = 1 /\ Len(nsLists.entities) = 1
    /\ Len(nsLists.actionFunctions) = 1 /\ Len(nsLists.typeAliases) = 0

\* the position in the definitions map of the definition with a key, 0 for
\* the generated entity-name enumerations
PositionOf(key) ==
    IF \E k \in 1..Len(nsDefinitions) : KeyOf(k) = key
    THEN CHOOSE k \in 1..Len(nsDefinitions) : KeyOf(k) = key
    ELSE 0

\* the group a declaration belongs to: 1 type aliases, 2 enums, 3 entities,
\* 4 action/functions, 5 the generated entity-name enumerations
GroupOf(d) ==
    IF PositionOf(d.of) = 0 THEN 5
    ELSE CASE nsDefinitions[PositionOf(d.of)][1].kind = "type" -> 1
           [] nsDefinitions[PositionOf(d.of)][1].kind = "enum" -> 2
           [] nsDefinitions[PositionOf(d.of)][1].kind = "entity" -> 3
           [] nsDefinitions[PositionOf(d.of)][1].kind = "actionFunction" -> 4

\* the declaration of the definition itself, not one it brings along
IsMainDeclaration(d) ==
    CASE GroupOf(d) = 1 -> d.decl = "typeAlias"
      [] GroupOf(d) = 2 -> d.decl = "enum"
      [] GroupOf(d) = 3 -> d.decl \in {"interface", "class"}
      [] GroupOf(d) = 4 -> d.decl = "enum"
      [] GroupOf(d) = 5 -> TRUE

(***************************************************************************)
(* C14: generateCode adds the declarations group by group: type aliases,   *)
(* enums, entities, action/functions, and last the enumerations "Entity"   *)
(* and "SanitizedEntity"; within a group the definitions follow the order  *)
(* of the definitions map.                                                 *)
(***************************************************************************)
C14_DeclarationOrder ==
    nsPc = "generated" =>
        LET group    == [ i \in 1..Len(nsSource) |-> GroupOf(nsSource[i]) ]
            position == [ i \in 1..Len(nsSource) |-> PositionOf(nsSource[i].of) ]
            main     == [ i \in 1..Len(nsSource) |-> IsMainDeclaration(nsSource[i]) ]
        IN /\ \A i, j \in 1..Len(nsSource) :
                 i < j =>
                    /\ group[i] <= group[j]
                    /\ (group[i] = group[j] /\ group[i] # 5 /\ main[i] /\ main[j])
                          => position[i] < position[j]
           /\ Len(nsSource) >= 2
           /\ nsSource[Len(nsSource) - 1] = Declaration("enum", EntityEnum)
           /\ nsSource[Len(nsSource)] = Declaration("enum", SanitizedEntityEnum)
           /\ \A k \in 1..Len(nsDefinitions) :
                 (nsDefinitions[k] # Undefined /\ nsDefinitions[k][1].kind = "entity") =>
                    Cardinality({ i \in 1..Len(nsSource) :
                                    position[i] = k /\ main[i] }) = 1

C14_Witness ==
    /\ nsPc = "generated"
    /\ [ i \in 1..Len(nsSource) |-> GroupOf(nsSource[i]) ] = <<1, 2, 3, 3, 3, 4, 4, 4, 5, 5>>

(***************************************************************************)
(* C16: after generateStubs the export statement of index.js lists every   *)
(* class of the file exactly once, one name per entity of the namespace,   *)
(* and every class is left non-exported with no property types.            *)
(***************************************************************************)
C16_StubsExportedOnceAndStripped ==
    \A k \in 1..Len(emFiles) :
        LET ns == emSource.namespaces[k]
            js == emFiles[k].js
        IN /\ Len(js.exports) = Len(ns.interfaces)
           /\ Len(js.classes) = Len(ns.interfaces)
           /\ \A c \in 1..Len(js.classes) :
                 /\ Occurrences(js.exports, js.classes[c].name) = 1
                 /\ js.classes[c].name = ns.interfaces[c].name
                 /\ ~js.classes[c].isExported
                 /\ \A j \in 1..Len(js.classes[c].properties) :
                       js.classes[c].properties[j].type = <<>>

C16_Witness ==
    /\ Len(emFiles) >= 1
    /\ emFiles[1].js.exports = <<Person, Employee>>
    /\ Len(emFiles[1].js.classes[2].properties) >= 2

(***************************************************************************)
(* C17: when the run ends and the directory of the output path is missing, *)
(* no output file was written and the run was terminated, by writeSource   *)
(* with a nonzero exit status; when the directory exists the run ends with *)
(* the output file written and is not terminated, whatever reference was   *)
(* unresolvable and whatever type text could not be read.                  *)
(***************************************************************************)
RunEnded == runPc \in {"written", "exited", "rejected"}

\* the run was cut short: the process exited or run's promise was rejected
RunTerminated == runPc \in {"exited", "rejected"}

C17_OnlyMissingDirectoryTerminates ==
    /\ runPc = "exited" =>
          /\ ~runDisk.directory
          /\ OutputFile \notin runDisk.files
          /\ runExit # Undefined /\ runExit[1] # 0
    /\ (RunEnded /\ ~runDisk.directory) =>
          RunTerminated /\ OutputFile \notin runDisk.files
    /\ (RunEnded /\ runDisk.directory) =>
          /\ ~RunTerminated
          /\ OutputFile \in runDisk.files
          /\ runExit = Undefined

(***************************************************************************)
(* C18: takeRight(xs, n) returns the last min(n, length) elements of xs in *)
(* their order when n > 0 and the empty array when n <= 0.                 *)
(***************************************************************************)
\* the elements of xs from position Len(xs) - k + 1 on, for 0 <= k <= Len(xs)
LastElements(xs, k) == [ j \in 1..k |-> xs[Len(xs) - k + j] ]

C18_TakeRightLastElements ==
    (callPc = "returned" /\ callFn = "takeRight") =>
        LET xs == callArgs[1]
            n  == callArgs[2]
        IN IF n > 0
           THEN callResult = LastElements(xs, IF n < Len(xs) THEN n ELSE Len(xs))
           ELSE callResult = <<>>

\* a call that takes some but not all of the elements
C18_Witness ==
    /\ callPc = "returned" /\ callFn = "takeRight"
    /\ callArgs[1] = <<1, 2, 1>>
    /\ callArgs[2] = 2
    /\ callResult = <<2, 1>>

(***************************************************************************)
(* C19: startCase(s) returns what lodash startCase returns, for every      *)
(* string over letters, digits, "-", "_" and space: the words of s, each   *)
(* with its first character upper-cased, joined by single spaces.          *)
(*                                                                         *)
(* The words are those of lodash words() restricted to these characters:   *)
(* runs of letters and digits when the string has no inner boundary, else  *)
(* the matches of its word pattern, whose alternatives are tried in order: *)
(* a capitalized or lower-case word before a break, a capital or the end;  *)
(* capitals before a break, a capitalized word or the end; a capitalized   *)
(* or lower-case word; capitals; an ordinal (1st, 2nd, 3rd, 4th) in upper  *)
(* or lower case; digits.                                                  *)
(***************************************************************************)
BreakClass == {" ", "-", "_"}

LetterClass == UpperClass \cup LowerClass

\* [a-z][A-Z], [A-Z]{2}[a-z], [0-9][a-zA-Z], [a-zA-Z][0-9] or [^a-zA-Z0-9 ]
HasInnerBoundary(s) ==
    \/ \E i \in 1..Len(s) : s[i] \in {"-", "_"}
    \/ \E i \in 1..(Len(s) - 1) :
          \/ s[i] \in LowerClass /\ s[i + 1] \in UpperClass
          \/ s[i] \in DigitClass /\ s[i + 1] \in LetterClass
          \/ s[i] \in LetterClass /\ s[i + 1] \in DigitClass
    \/ \E i \in 1..(Len(s) - 2) :
          s[i] \in UpperClass /\ s[i + 1] \in UpperClass /\ s[i + 2] \in LowerClass

RECURSIVE AlnumRuns(_, _)
AlnumRuns(s, i) ==
    IF i > Len(s) THEN <<>>
    ELSE LET r == RunLength(s, i, LetterClass \cup DigitClass)
         IN IF r > 0 THEN <<SubSeq(s, i, i + r - 1)>> \o AlnumRuns(s, i + r)
            ELSE AlnumRuns(s, i + 1)

\* position p is the end of s or holds a character of the class
EndOrIn(s, p, class) == p > Len(s) \/ s[p] \in class

\* a capitalized or lower-case word followed by a break, a capital or the end
WordBeforeBoundary(s, i) ==
    LET n == CapitalizedLength(s, i)
    IN IF n > 0 /\ EndOrIn(s, i + n, BreakClass \cup UpperClass) THEN n ELSE 0

\* capitals followed by a break, a capitalized word or the end
CapitalsBeforeBoundary(s, i) ==
    LET u == RunLength(s, i, UpperClass)
    IN IF u > 0 /\ EndOrIn(s, i + u, BreakClass) THEN u
       ELSE IF u > 1 /\ s[i + u] \in LowerClass THEN u - 1
       ELSE 0

\* the three characters at p are 1st, 2nd, 3rd or a digit other than 1, 2, 3
\* and th, in the given case, followed by a word boundary or by the class
OrdinalAt(s, p, suffixes, th, after) ==
    /\ p + 2 <= Len(s)
    /\ \/ SubSeq(s, p, p + 2) \in suffixes
       \/ s[p] \in DigitClass /\ s[p] \notin {"1", "2", "3"} /\ SubSeq(s, p + 1, p + 2) = th
    /\ EndOrIn(s, p + 3, {" ", "-"} \cup after)

\* \d* and an ordinal: as many leading digits as leave an ordinal
OrdinalLength(s, i, suffixes, th, after) ==
    LET ks == { k \in 0..RunLength(s, i, DigitClass) :
                  OrdinalAt(s, i + k, suffixes, th, after) }
    IN IF ks = {} THEN 0
       ELSE (CHOOSE k \in ks : \A j \in ks : j <= k) + 3

UpperOrdinal(s, i) ==
    OrdinalLength(s, i, { <<"1", "S", "T">>, <<"2", "N", "D">>, <<"3", "R", "D">> },
                  <<"T", "H">>, LowerClass \cup {"_"})

LowerOrdinal(s, i) ==
    OrdinalLength(s, i, { <<"1", "s", "t">>, <<"2", "n", "d">>, <<"3", "r", "d">> },
                  <<"t", "h">>, UpperClass \cup {"_"})

LodashWordLength(s, i) ==
    IF WordBeforeBoundary(s, i) > 0 THEN WordBeforeBoundary(s, i)
    ELSE IF CapitalsBeforeBoundary(s, i) > 0 THEN CapitalsBeforeBoundary(s, i)
    ELSE IF CapitalizedLength(s, i) > 0 THEN CapitalizedLength(s, i)
    ELSE IF RunLength(s, i, UpperClass) > 0 THEN RunLength(s, i, UpperClass)
    ELSE IF UpperOrdinal(s, i) > 0 THEN UpperOrdinal(s, i)
    ELSE IF LowerOrdinal(s, i) > 0 THEN LowerOrdinal(s, i)
    ELSE RunLength(s, i, DigitClass)

RECURSIVE LodashMatchWords(_, _)
LodashMatchWords(s, i) ==
    IF i > Len(s) THEN <<>>
    ELSE LET w == LodashWordLength(s, i)
         IN IF w > 0 THEN <<SubSeq(s, i, i + w - 1)>> \o LodashMatchWords(s, i + w)
            ELSE LodashMatchWords(s, i + 1)

LodashWords(s) ==
    IF HasInnerBoundary(s) THEN LodashMatchWords(s, 1) ELSE AlnumRuns(s, 1)

LodashStartCase(s) ==
    Join([ k \in 1..Len(LodashWords(s)) |-> UpperFirst(LodashWords(s)[k]) ], <<" ">>)

C19_StartCaseAsLodash ==
    (callPc = "returned" /\ callFn = "startCase") =>
        callResult = LodashStartCase(callArgs[1])

(***************************************************************************)
(* C20: in every flattening path, an inherited property with the name and  *)
(* the type of a property the class already has changes nothing: when      *)
(* Employee declares x: T itself and every ancestor that declares x        *)
(* declares it as T too, the flattened class has x: T (and not "T | T").   *)
(***************************************************************************)
\* the type the k-th ancestor Employee lists declares for x, in either path
InheritedType(k, x) ==
    IF flImpl = "namespace"
    THEN LET a == FindByName(flClosure, EmployeeInterface.extends[k])
         IN IF a = 0 THEN Undefined ELSE DeclaredType(flClosure[a].properties, x)
    ELSE DeclaredType(AncestorSignatures(k), x)

\* Employee declares x, some ancestor declares it too, and all with one type
InheritsIdentical(x) ==
    LET own == DeclaredType(EmployeeInterface.properties, x)
        ks  == 1..Len(EmployeeInterface.extends)
    IN /\ own # Undefined
       /\ \E k \in ks : InheritedType(k, x) = own
       /\ \A k \in ks : InheritedType(k, x) \in {Undefined, own}

C20_IdenticalPropertyUnchanged ==
    (flPc = "flattened" /\ flMerges = 1) =>
        \A x \in PropNames :
            InheritsIdentical(x) =>
                DeclaredType(EmployeeClass.properties, x)
                    = DeclaredType(EmployeeInterface.properties, x)

(***************************************************************************)
(* C21: an inherited property whose name the class already has and whose   *)
(* type is none of the branches of the existing type widens the existing   *)
(* type to "existing | new", also when the text of the new type is part of *)
(* the text of the existing one ("string[]" and "string"): Employee rolled *)
(* out over Person by Program.generateCode.                                *)
(***************************************************************************)
\* the pending classes of the parsed model, and the class of Employee in the
\* generated source
RunPending == runParsed.namespaces[1].pendingClasses

RunEmployeeClass == runSource.classes[FindByName(runSource.classes, Employee)]

\* Employee extends the Person of its namespace and declares id itself, with
\* a type that has not Person's type of id among its branches
RunInheritsOtherType ==
    /\ runOptions.javascript
    /\ RunPending[2].extends = Person
    /\ RunPending[2].properties[1].name = Id
    /\ RunPending[1].properties[1].type
          \notin Range(SplitSep(RunPending[2].properties[1].type, UnionSep))

C21_DifferentTypeWidens ==
    (runPc = "generated" /\ RunInheritsOtherType) =>
        DeclaredType(RunEmployeeClass.properties, Id)
            = Some(RunPending[2].properties[1].type \o UnionSep
                   \o RunPending[1].properties[1].type)

(***************************************************************************)
(* C22: flattening is transitive: with the ancestors processed before      *)
(* their descendants, the flattened class of Employee has every property   *)
(* of Person, its ancestor, and of Named, the ancestor of Person, wherever *)
(* Named is declared.                                                      *)
(***************************************************************************)
NamesOf(props) == { props[k].name : k \in 1..Len(props) }

\* the interface with a name, in the entity list or in the context
ChainInterface(n) ==
    IF flImpl = "namespace" THEN flClosure[FindByName(flClosure, n)]
    ELSE LET all == Flatten([ k \in 1..Len(flContext.namespaces) |->
                                flContext.namespaces[k].interfaces ]) \o flClosure
         IN all[FindByName(all, n)]

\* the entity list names every ancestor before its descendants
AncestorsFirst ==
    flImpl = "namespace" =>
        /\ FindByName(flClosure, Named) < FindByName(flClosure, Person)
        /\ FindByName(flClosure, Person) < FindByName(flClosure, Employee)

C22_FlatteningTransitive ==
    (flPc = "flattened" /\ flMerges = 1 /\ AncestorsFirst) =>
        NamesOf(EmployeeClass.properties) =
            NamesOf(ChainInterface(Employee).properties)
            \cup NamesOf(ChainInterface(Person).properties)
            \cup NamesOf(ChainInterface(Named).properties)

(***************************************************************************)
(* C25: the outcome of flattening does not depend on the processing order: *)
(* whatever the order of the entity list Namespace.addEntityDeclarations   *)
(* rolls out, every class gets the same set of property names and every    *)
(* property the same set of union branches.                                *)
(***************************************************************************)
BranchesOf(props, n) ==
    IF FindByName(props, n) = 0 THEN {}
    ELSE Range(SplitSep(props[FindByName(props, n)].type, UnionSep))

\* two class lists give every class the same names and the same branches
SameOutcome(classes, others) ==
    \A c \in {Named, Person, Employee} :
        LET a == classes[FindByName(classes, c)].properties
            b == others[FindByName(others, c)].properties
        IN /\ NamesOf(a) = NamesOf(b)
           /\ \A x \in PropNames : BranchesOf(a, x) = BranchesOf(b, x)

C25_OrderIndependent ==
    (flPc = "flattened" /\ flMerges = 1 /\ flImpl = "namespace") =>
        \A p \in Orders(Len(flClosure)) :
            SameOutcome(flClasses,
                        addEntityDeclarations(EntityDeclarations(Reorder(flClosure, p))))

(***************************************************************************)
(* C23: an ancestor of the namespace of the class being flattened is       *)
(* looked up in that namespace, never in another scope that holds an       *)
(* entity of the same name: the class of Employee in the index.d.ts of     *)
(* namespace a, with a.Person its only ancestor, has its own properties    *)
(* and those of the Person of namespace a, whatever the root file holds.   *)
(***************************************************************************)
FindByNamespace(files, nsName) ==
    IF \E k \in 1..Len(files) : files[k].namespace = nsName
    THEN CHOOSE k \in 1..Len(files) : files[k].namespace = nsName
    ELSE 0

\* the file written for the namespace with a name, and its source namespace
FileOf(nsName) == emFiles[FindByNamespace(emFiles, nsName)]

SourceNamespace(nsName) == emSource.namespaces[FindByName(emSource.namespaces, nsName)]

\* Employee of namespace a, extending a.Person only, has been written
EmployeeOfAWritten ==
    /\ FindByNamespace(emFiles, NsA) # 0
    /\ FindByName(SourceNamespace(NsA).interfaces, Employee) # 0
    /\ SourceNamespace(NsA).interfaces[2].extends = <<FqPerson>>

C23_AncestorResolvedInItsNamespace ==
    EmployeeOfAWritten =>
        LET classes == FileOf(NsA).dts.classes
        IN NamesOf(classes[FindByName(classes, Employee)].properties)
              = NamesOf(SourceNamespace(NsA).interfaces[2].properties)
                \cup NamesOf(SourceNamespace(NsA).interfaces[1].properties)

(***************************************************************************)
(* C24: getTypeText never yields an empty type, and when the structural    *)
(* read fails it yields the declared type whole, the text after the first  *)
(* ":" or "=" of the declaration, also when that text has a ":" or "=" of  *)
(* its own.                                                                *)
(***************************************************************************)
C24_TypeTextWhole ==
    (callPc = "returned" /\ callFn = "getTypeText") =>
        /\ callResult # <<>>
        /\ callResult = callArgs[1].type

(***************************************************************************)
(* C26: in every index.d.ts written by writeNamespace, an alias-qualified  *)
(* reference of an extends clause or a property type has an import whose   *)
(* namespaceImport is the namespace part of the alias; a reference to a    *)
(* type of the namespace itself is written unqualified and has no import;  *)
(* and the locality test on paths agrees with the one on namespace names.  *)
(***************************************************************************)
\* a type text without its "[]" suffix
WithoutArraySuffix(t) == IF EndsWith(t, ArraySuffix) THEN DropRight(t, 2) ELSE t

IsAliasQualified(t) == Len(t) > 0 /\ t[1] = "_" /\ Contains(t, <<".">>)

\* the texts of the extends clauses and property types of a written index.d.ts
WrittenReferences(file) ==
    UNION { Range(file.dts.addedInterfaces[k].extends)
              \cup { WithoutArraySuffix(file.dts.addedInterfaces[k].properties[j].type) :
                       j \in 1..Len(file.dts.addedInterfaces[k].properties) } :
            k \in 1..Len(file.dts.addedInterfaces) }

ImportedAliases(file) ==
    { file.dts.imports[k].namespaceImport : k \in 1..Len(file.dts.imports) }

\* the qualifiers interface i of namespace ns refers to, each with the text
\* written for it
QualifiedReferences(ns, i, written) ==
    { [ q |-> ModuleQualifier(i.extends[j], TRUE, FALSE), text |-> written.extends[j] ] :
        j \in 1..Len(i.extends) }
    \cup
    { [ q    |-> resolve(Join(<<ns.name, i.name>>, <<".">>), i.properties[j].name, emCson)[1],
        text |-> WithoutArraySuffix(written.properties[j].type) ] :
        j \in { n \in 1..Len(i.properties) :
                  resolve(Join(<<ns.name, i.name>>, <<".">>), i.properties[n].name, emCson)
                      # Undefined } }

ReferencesConsistent(file) ==
    LET ns  == SourceNamespace(file.namespace)
        rel == PathJoin(Split(ns.name, "."))
    IN /\ \A t \in WrittenReferences(file) :
             IsAliasQualified(t) => Split(t, ".")[1] \in ImportedAliases(file)
       /\ \A k \in 1..Len(ns.interfaces) :
          \A r \in QualifiedReferences(ns, ns.interfaces[k], file.dts.addedInterfaces[k]) :
             /\ (getNamespace(r.q) = ns.name)
                   <=> isLocalNamespace(ModuleQualifier(getNamespace(r.q), FALSE, FALSE), rel)
             /\ getNamespace(r.q) = ns.name =>
                   /\ r.text = r.q.clazz
                   /\ getAlias(ModuleQualifier(ns.name, FALSE, FALSE))
                         \notin ImportedAliases(file)

C26_ImportsMatchReferences ==
    \A f \in 1..Len(emFiles) : ReferencesConsistent(emFiles[f])

\* a written file with a qualified property type and a reference to its own namespace
C26_Witness ==
    \E f \in 1..Len(emFiles) :
        /\ \E k \in 1..Len(emFiles[f].dts.addedInterfaces) :
           \E j \in 1..Len(emFiles[f].dts.addedInterfaces[k].properties) :
              IsAliasQualified(emFiles[f].dts.addedInterfaces[k].properties[j].type)
        /\ \E k \in 1..Len(SourceNamespace(emFiles[f].namespace).interfaces) :
           \E r \in QualifiedReferences(SourceNamespace(emFiles[f].namespace),
                                        SourceNamespace(emFiles[f].namespace).interfaces[k],
                                        emFiles[f].dts.addedInterfaces[k]) :
              getNamespace(r.q) = emFiles[f].namespace

(***************************************************************************)
(* C27: every module specifier of an import written by writeNamespace,     *)
(* read from the directory in which the namespace's index.d.ts is created, *)
(* denotes the directory of the imported namespace below the output root.  *)
(***************************************************************************)
\* the directory of a file path
Dirname(p) == Join(Front(Split(p, "/")), <<"/">>)

\* the namespaces imported by a written file, in the order of its imports
ImportedNamespaces(file) ==
    LET ns == SourceNamespace(file.namespace)
    IN getImportPaths(ns, PathJoin(Split(ns.name, ".")), emSource, emCson)

SpecifiersDenoteDirectories(file) ==
    \A k \in 1..Len(file.dts.imports) :
        PathJoin(<<Dirname(file.dts.path), file.dts.imports[k].moduleSpecifier>>)
            = PathJoin(<<Output, getDirectory(ImportedNamespaces(file)[k])>>)

C27_SpecifierDenotesDirectory ==
    \A f \in 1..Len(emFiles) : SpecifiersDenoteDirectories(emFiles[f])

(***************************************************************************)
(* C28: for every entity of a written namespace, the class of index.d.ts   *)
(* and the class stub of index.js have the same set of property names,     *)
(* the properties inherited from ancestors of the same and of other        *)
(* namespaces included.                                                    *)
(***************************************************************************)
PropertyNames(class) == { class.properties[j].name : j \in 1..Len(class.properties) }

EmissionPathsAgree(file) ==
    /\ Len(file.dts.classes) = Len(file.js.classes)
    /\ \A k \in 1..Len(file.dts.classes) :
          PropertyNames(file.dts.classes[k]) = PropertyNames(file.js.classes[k])

C28_DeclarationAndStubAgree ==
    \A f \in 1..Len(emFiles) : EmissionPathsAgree(emFiles[f])

FlattenedForStubs(file) ==
    interfacesToClasses(SourceNamespace(file.namespace).interfaces, emSource, FALSE)

AllSavesCompleted == svPc = "returned" /\ svPending = {}

CompleteUnitStored(ns) ==
    LET dts == writeNamespace(ns, Output, svSource, svCson).dts
    IN dts.path \in DOMAIN svDisk /\ svDisk[dts.path] = DtsComplete(dts)

C30_LastSaveStored ==
    AllSavesCompleted =>
        \A k \in 1..Len(svSource.namespaces) : CompleteUnitStored(svSource.namespaces[k])

====
